---------------------------- MODULE Spec2Model ----------------------------
(***************************************************************************)
(* NutritionAI-mobile: the on-device store (src/src/services/database.ts), *)
(* the OpenRouter analysis client (src/unnamed/part_001, second listing,   *)
(* lines 234-498) and the screen handlers that drive them.                 *)
(*                                                                         *)
(* The store is a SQLite database: a table is the sequence of its rows in  *)
(* rowid order, AUTOINCREMENT ids come from sqlite_sequence and are never  *)
(* reused.  JavaScript values that may be null/undefined are carried as    *)
(* typed records so that a string is never compared with a number.         *)
(***************************************************************************)
EXTENDS Integers, Sequences, FiniteSets, TLC

---------------------------------------------------------------------------
(* Bounds of the model (not program constants).                            *)

\* Largest id sqlite_sequence hands out per table in a run.
MaxRowId == 3
\* Number of app launches (initializeDatabase calls) in a run.
MaxLaunches == 2
\* Number of calendar days a run spans; the last one is the current day.
Today == 2
\* Number of loadData calls of the water screen that may be in flight.
MaxWaterLoads == 2
\* Food and water rows together in the runs that read daily totals.
MaxDailyRows == 3
\* Food entries inserted in the runs that edit, delete and list them.
MaxFoodRows == 2
\* Seconds the clock may advance in a run.
MaxNow == 2

---------------------------------------------------------------------------
(* Input alphabets.                                                        *)

\* users.id values a caller may pass; only DefaultUserId is ever inserted.
DefaultUserId == 1
UserIds == {DefaultUserId, 2}

\* Setting keys ('ai_model' is the one the Settings screen uses).
SettingKeys == {"ai_model", "theme"}
\* Setting values: any string, the empty string included.
SettingValues == {"", "m1", "m2"}

\* SQL NULL / JavaScript null for a string-valued result.
Null == "<null>"
\* The marker for "no setSetting has happened for this (user, key)".
Never == "<never>"

\* Dates are yyyy-MM-dd strings, compared as strings; the model numbers the
\* days 1..Today in calendar order, Today being format(new Date(), 'yyyy-MM-dd').
Dates == 1..Today

VARIABLES
    \* ---- the SQLite database ----
    tables,          \* names of the tables that exist
    usersCols,       \* columns of the users table
    users,           \* rows of users (sequence, rowid order)
    settings,        \* rows of settings
    water_intake,    \* rows of water_intake
    food_entries,    \* rows of food_entries
    sqlite_sequence, \* table name -> last AUTOINCREMENT id handed out
    \* ---- initializeDatabase in progress ----
    initPc,          \* where the running initializeDatabase call stands
    columnNames,     \* migrateUsersTable's snapshot of PRAGMA table_info(users)
    alterIdx,        \* index into columnsToAdd of the loop in migrateUsersTable
    initCalls,       \* history: number of initializeDatabase calls so far
    \* ---- SecureStore ----
    secureKey,       \* item 'openrouter_api_key' ("" when absent)
    \* ---- WaterScreen (React state) ----
    selectedDate,    \* the day shown
    waterIntake,     \* the total shown (state set by loadData)
    waterLoads,      \* loadData calls in flight: the dateString each captured
    \* ---- OpenRouterService (one instance) ----
    config,          \* [apiKey, model]: the mutable configuration
    pending,         \* the request in flight, op = "none" when there is none
    callRequests,    \* chat-completion requests issued by the latest call
    outcome,         \* what the latest client call returned or threw
    prevFailure,     \* history: category and message of the failure before
    lastReply,       \* history: the reply the latest call's request got
    \* ---- the device clock ----
    now,             \* CURRENT_TIMESTAMP, in seconds
    \* ---- DatabaseService call results ----
    dbRet,           \* what the last store call returned or raised
    lastSet,         \* history: (user, key) -> value of the latest setSetting
    \* ---- FoodAnalysisScreen and a getDailyTotals call in progress ----
    screen,          \* the screen's React state, its service and its handlers
    dailyCall        \* the running getDailyTotals call, pc = "idle" when none

dbVars == <<tables, usersCols, users, settings, water_intake, food_entries,
            sqlite_sequence>>
initVars == <<initPc, columnNames, alterIdx, initCalls>>
waterVars == <<selectedDate, waterIntake, waterLoads>>
clientVars == <<config, pending, callRequests, outcome, prevFailure, lastReply>>
uiVars == <<screen, dailyCall>>
vars == <<tables, usersCols, users, settings, water_intake, food_entries,
          sqlite_sequence, initPc, columnNames, alterIdx, initCalls,
          secureKey, selectedDate, waterIntake, waterLoads,
          config, pending, callRequests, outcome, prevFailure, lastReply, now,
          dbRet, lastSet, screen, dailyCall>>

---------------------------------------------------------------------------
(* Schema.                                                                 *)

AllTables == {"users", "food_entries", "water_intake", "settings"}

\* Columns the first released schema already had.
BaseUserCols == {"id", "name", "calorie_goal", "water_goal", "created_at"}
\* Columns migrateUsersTable adds, in the order of columnsToAdd.
columnsToAdd == <<"weight", "age", "activity_level", "weight_goal",
                  "setup_completed">>
NewUserCols == {columnsToAdd[i] : i \in 1..Len(columnsToAdd)}
AllUserCols == BaseUserCols \cup NewUserCols

\* A users row.  Numeric columns hold an integer, SqlNull for NULL and
\* NoCol when the table has no such column; text columns hold a string,
\* Null or NoColText.
SqlNull == -1
NoCol == -2
NoColText == "<nocol>"

DefaultUser ==
    [id |-> DefaultUserId, name |-> "Default User",
     weight |-> SqlNull, age |-> SqlNull,
     activity_level |-> Null, weight_goal |-> Null,
     calorie_goal |-> 2000, water_goal |-> 2500, setup_completed |-> 0]

\* The row as stored in a table that has only the columns cols.
RowForCols(row, cols) ==
    [row EXCEPT
       !.weight = IF "weight" \in cols THEN @ ELSE NoCol,
       !.age = IF "age" \in cols THEN @ ELSE NoCol,
       !.activity_level = IF "activity_level" \in cols THEN @ ELSE NoColText,
       !.weight_goal = IF "weight_goal" \in cols THEN @ ELSE NoColText,
       !.setup_completed = IF "setup_completed" \in cols THEN @ ELSE NoCol]

\* FOREIGN KEY (user_id) REFERENCES users (id), with PRAGMA foreign_keys = ON.
UserExists(userId) == \E i \in 1..Len(users) : users[i].id = userId

\* What a store call gave back: ok = FALSE when it raised; key/str/num carry
\* the call's key argument, its string result and its user id or number.
\* args are the arguments of a query and rows the rows it returned.
Ret(op, ok, key, str, num) ==
    [op |-> op, ok |-> ok, key |-> key, str |-> str, num |-> num,
     args |-> <<>>, rows |-> <<>>]
RetOf(op, args, num, rows) ==
    [op |-> op, ok |-> TRUE, key |-> Null, str |-> Null, num |-> num,
     args |-> args, rows |-> rows]
NoRet == Ret("none", TRUE, Null, Null, 0)

\* The screens mount inside SQLiteProvider, which renders them only once
\* onInit (initializeDatabase) has resolved.
AppReady == initPc = "done"

---------------------------------------------------------------------------
(* OpenRouterService: values, replies and messages.                        *)

\* API keys and model identifiers; DEFAULT_CONFIG has apiKey '' and the
\* model google/gemini-2.5-flash.
ApiKeys == {"", "sk-1"}
DefaultModel == "google/gemini-2.5-flash"
Models == {DefaultModel, "openai/gpt-4o"}
DEFAULT_CONFIG == [apiKey |-> "", model |-> DefaultModel]

\* A JSON / JavaScript value with its type.
JStr(str) == [ty |-> "string", s |-> str, n |-> 0]
JNum(num) == [ty |-> "number", s |-> "", n |-> num]
JNull == [ty |-> "null", s |-> "", n |-> 0]
JUndefined == [ty |-> "undefined", s |-> "", n |-> 0]
\* typeof v
TypeOf(v) == IF v.ty = "null" THEN "object" ELSE v.ty

\* The fields of a nutrition record; a JSON object is a function from them
\* to values, JUndefined where the object has no such member.
Fields == {"food_description", "estimated_serving", "food_category",
           "calories", "protein", "carbs", "fat", "confidence"}
EmptyObject == [f \in Fields |-> JUndefined]

\* A record as the prompt asks for it.
BaseRecord ==
    [food_description |-> JStr("pizza"), estimated_serving |-> JStr("1x serving"),
     food_category |-> JStr("protein"), calories |-> JNum(250),
     protein |-> JNum(12), carbs |-> JNum(30), fat |-> JNum(10),
     confidence |-> JStr("high")]

\* What a model may send instead, field by field: other legal values, wrong
\* types, values outside the enumerations, the empty string, null, nothing.
FieldChanges ==
    {<<"food_description", v>> : v \in {JStr(""), JNum(5), JUndefined}}
    \cup {<<"estimated_serving", v>> : v \in {JStr(""), JStr("150 grams"), JUndefined}}
    \cup {<<"food_category", v>> : v \in {JStr("dairy"), JStr("snack"), JNull, JUndefined}}
    \cup {<<"calories", v>> : v \in {JNum(0), JStr("250"), JUndefined}}
    \cup {<<"protein", v>> : v \in {JStr("12"), JNull}}
    \cup {<<"carbs", v>> : v \in {JUndefined}}
    \cup {<<"fat", v>> : v \in {JStr("10")}}
    \cup {<<"confidence", v>> : v \in {JStr("low"), JStr("certain"), JUndefined}}

\* The JSON objects a reply may carry: BaseRecord with up to two fields changed.
ReplyObjects ==
    LET one == {[BaseRecord EXCEPT ![c[1]] = c[2]] : c \in FieldChanges}
    IN {BaseRecord} \cup one
       \cup {[o EXCEPT ![c[1]] = c[2]] : o \in one, c \in FieldChanges}

\* The text of a reply, as tokens: "FJ" is ```json, "F" is ```, "WS" is
\* white space, "P" is prose without braces or backticks, "LB" and "RB" are
\* { and }, "M" is the member list of the reply's JSON object.
ContentPrefixes == {<<>>, <<"FJ", "WS">>, <<"F", "WS">>, <<"P", "WS">>,
                    <<"P", "WS", "FJ", "WS">>}
ContentBodies == {<<"LB", "M", "RB">>, <<"LB", "WS", "M", "WS", "RB">>,
                  <<"LB", "RB">>, <<"LB", "M">>, <<"M", "RB">>, <<"RB", "M", "LB">>,
                  <<"LB", "LB", "M", "RB", "RB">>,
                  <<"LB", "M", "RB", "P", "LB", "M", "RB">>, <<"P">>, <<"WS">>}
ContentSuffixes == {<<>>, <<"WS", "F">>, <<"WS", "P">>}
Contents == {a \o b \o c : a \in ContentPrefixes, b \in ContentBodies,
                           c \in ContentSuffixes}

\* Every text is tried around a good record and a bad one, and every object
\* inside the two usual texts: bare JSON and JSON in a ```json fence.
WrappedObjects == {BaseRecord, [BaseRecord EXCEPT !.calories = JStr("250")]}
PlainContents == {<<"LB", "M", "RB">>,
                  <<"FJ", "WS", "LB", "M", "RB", "WS", "F">>}

\* error.message of an AxiosError.
AxiosStatusMessage(status) ==
    CASE status = 400 -> "Request failed with status code 400"
      [] status = 401 -> "Request failed with status code 401"
      [] status = 429 -> "Request failed with status code 429"
      [] status = 500 -> "Request failed with status code 500"
      [] status = 502 -> "Request failed with status code 502"
      [] status = 503 -> "Request failed with status code 503"
      [] OTHER -> "Request failed"
TransportMessages == {"Network Error", "timeout of 30000ms exceeded"}
\* response.data.error.message of an error reply ("" when the body has none).
ServerMessages == {"", "Provider returned error"}
HttpErrorStatuses == {400, 401, 429, 500, 502, 503}

\* How a request ends: kind "transport" (no response), "http" (a response
\* with an error status), or "ok" (status 200) with choices "missing" (the
\* body has no choices array), "empty" ([]) or "content".
Reply(kind, status, msg, choices, toks, obj) ==
    [kind |-> kind, status |-> status, msg |-> msg, choices |-> choices,
     toks |-> toks, obj |-> obj]
ErrorReplies ==
    {Reply("transport", 0, m, "missing", <<>>, EmptyObject) : m \in TransportMessages}
    \cup {Reply("http", st, m, "missing", <<>>, EmptyObject) :
             st \in HttpErrorStatuses, m \in ServerMessages}
AnalysisReplies ==
    ErrorReplies
    \cup {Reply("ok", 200, "", c, <<>>, EmptyObject) : c \in {"missing", "empty", "content"}}
    \cup {Reply("ok", 200, "", "content", t, o) : t \in Contents, o \in WrappedObjects}
    \cup {Reply("ok", 200, "", "content", t, o) : t \in PlainContents, o \in ReplyObjects}
\* Replies to the tip request: the content is free text, kept in msg.
TipTexts == {"", "Eat more fibre."}
TipReplies ==
    ErrorReplies
    \cup {Reply("ok", 200, "", c, <<>>, EmptyObject) : c \in {"missing", "empty"}}
    \cup {Reply("ok", 200, t, "content", <<>>, EmptyObject) : t \in TipTexts}

\* Messages of the errors analyzeFood throws.  "API Error: ${message}" keeps
\* its message in detail.
Msg(text) == [text |-> text, detail |-> ""]
MsgNoKey == Msg("OpenRouter API key not configured")
MsgNoContent == Msg("No response content from OpenRouter")
MsgNoJson == Msg("No valid JSON object found in response")
MsgInvalidRecord == Msg("Invalid nutrition analysis response format")
MsgBadFormat ==
    Msg("The AI returned an invalid response format. Please try again with a clearer image.")
MsgParseFailed == Msg("Failed to parse AI response. Please try again.")
MsgInvalidKey == Msg("Invalid API key. Please check your OpenRouter configuration.")
MsgRateLimit == Msg("Rate limit exceeded. Please try again later.")
MsgServiceError == Msg("OpenRouter service error. Please try again later.")
MsgApiError(message) == [text |-> "API Error: ", detail |-> message]
\* The TypeError of response.data.choices[0] when choices is undefined.
MsgTypeError == Msg("Cannot read property '0' of undefined")
NoMsg == Msg("")

\* generateNutritionTip's canned sentences.
TipWhenEmpty == "Stay hydrated and eat a variety of colorful fruits and vegetables!"
TipWhenFailed ==
    "Remember to balance your meals with proteins, healthy fats, and complex carbohydrates!"

\* What a client call came to.  kind is "none" while the call is running,
\* "returned" or "threw"; value is the record analyzeFood returned, text the
\* tip; cat and reply are history: the failure's category and the JSON
\* object the reply carried.
\* flag is the boolean testConnection returned and list the model ids
\* getAvailableModels returned.
Outcome(op, kind, msg, value, text, cat, reply) ==
    [op |-> op, kind |-> kind, msg |-> msg, value |-> value, text |-> text,
     cat |-> cat, reply |-> reply, flag |-> FALSE, list |-> <<>>]
NoOutcome == Outcome("none", "none", NoMsg, EmptyObject, "", "none", EmptyObject)
OutcomeFlag(op, flag) ==
    [Outcome(op, "returned", NoMsg, EmptyObject, "", "none", EmptyObject)
        EXCEPT !.flag = flag]
OutcomeList(op, list) ==
    [Outcome(op, "returned", NoMsg, EmptyObject, "", "none", EmptyObject)
        EXCEPT !.list = list]
NoPending == [op |-> "none", model |-> "", key |-> ""]
NoFailure == [cat |-> "none", msg |-> NoMsg]
NoReply == Reply("none", 0, "", "missing", <<>>, EmptyObject)

\* FoodAnalysisScreen before it mounts: its own OpenRouterService with the
\* default configuration, step 'camera', no result, nothing in flight.
\* fresh, lastRequest and lastFailure are history.
ScreenInitial ==
    [mounted |-> FALSE, config |-> DEFAULT_CONFIG, step |-> "camera",
     hasResult |-> FALSE, analysisResult |-> EmptyObject, runs |-> <<>>,
     alerts |-> 0, saving |-> FALSE, fresh |-> FALSE,
     lastRequest |-> NoPending, lastFailure |-> "none"]

\* No getDailyTotals call is running.
NoDailyCall ==
    [pc |-> "idle", date |-> 0, userId |-> 0,
     sums |-> [calories |-> 0, protein |-> 0, carbs |-> 0, fat |-> 0],
     food0 |-> <<>>, water0 |-> <<>>]

ClientInitial ==
    /\ screen = ScreenInitial
    /\ dailyCall = NoDailyCall
    /\ config = DEFAULT_CONFIG
    /\ pending = NoPending
    /\ callRequests = 0
    /\ outcome = NoOutcome
    /\ prevFailure = NoFailure
    /\ lastReply = NoReply

---------------------------------------------------------------------------
(* OpenRouterService: cleaning, parsing and validating the reply.          *)

\* The first index from i on that holds no white space (Len + 1 if none).
RECURSIVE SkipWs(_, _)
SkipWs(toks, i) ==
    IF i <= Len(toks) /\ toks[i] = "WS" THEN SkipWs(toks, i + 1) ELSE i

RECURSIVE TrimEnd(_)
TrimEnd(toks) ==
    IF toks # <<>> /\ toks[Len(toks)] = "WS"
    THEN TrimEnd(SubSeq(toks, 1, Len(toks) - 1))
    ELSE toks

\* content.trim()
trim(toks) == TrimEnd(SubSeq(toks, SkipWs(toks, 1), Len(toks)))

\* cleanContent.replace(/```json\s*|\s*```/g, ''), scanning from index i.
\* White space before ```json is eaten together with the three backticks
\* by the second alternative, which leaves the word json behind as prose.
RECURSIVE ReplaceJsonFences(_, _)
ReplaceJsonFences(toks, i) ==
    IF i > Len(toks) THEN <<>>
    ELSE LET j == SkipWs(toks, i)
         IN IF toks[i] = "FJ"
            THEN ReplaceJsonFences(toks, SkipWs(toks, i + 1))
            ELSE IF j <= Len(toks) /\ toks[j] = "F"
            THEN ReplaceJsonFences(toks, j + 1)
            ELSE IF j <= Len(toks) /\ j > i /\ toks[j] = "FJ"
            THEN <<"P">> \o ReplaceJsonFences(toks, j + 1)
            ELSE <<toks[i]>> \o ReplaceJsonFences(toks, i + 1)

\* cleanContent.replace(/```\s*|\s*```/g, ''), scanning from index i.
RECURSIVE ReplaceFences(_, _)
ReplaceFences(toks, i) ==
    IF i > Len(toks) THEN <<>>
    ELSE LET j == SkipWs(toks, i)
         IN IF toks[i] = "F"
            THEN ReplaceFences(toks, SkipWs(toks, i + 1))
            ELSE IF toks[i] = "FJ"
            THEN <<"P">> \o ReplaceFences(toks, i + 1)
            ELSE IF j <= Len(toks) /\ toks[j] = "F"
            THEN ReplaceFences(toks, j + 1)
            ELSE IF j <= Len(toks) /\ toks[j] = "FJ"
            THEN <<"P">> \o ReplaceFences(toks, j + 1)
            ELSE <<toks[i]>> \o ReplaceFences(toks, i + 1)

\* The cleaned content of lines 348-352.
cleanContent(toks) == ReplaceFences(ReplaceJsonFences(trim(toks), 1), 1)

\* String.indexOf / lastIndexOf, counting from 0, -1 when absent.
indexOf(toks, t) ==
    IF \E i \in 1..Len(toks) : toks[i] = t
    THEN (CHOOSE i \in 1..Len(toks) :
             toks[i] = t /\ \A k \in 1..(i - 1) : toks[k] # t) - 1
    ELSE 0 - 1
lastIndexOf(toks, t) ==
    IF \E i \in 1..Len(toks) : toks[i] = t
    THEN (CHOOSE i \in 1..Len(toks) :
             toks[i] = t /\ \A k \in (i + 1)..Len(toks) : toks[k] # t) - 1
    ELSE 0 - 1

\* No cut at all: the whole text.
substring_Whole(toks, start, end) == toks

\* String.substring(start, end): the arguments are clamped to the string
\* and exchanged when start > end.
substring(toks, start, end) ==
    LET Clamp(x) == IF x < 0 THEN 0 ELSE IF x > Len(toks) THEN Len(toks) ELSE x
        a == Clamp(start)
        b == Clamp(end)
        lo == IF a <= b THEN a ELSE b
        hi == IF a <= b THEN b ELSE a
    IN SubSeq(toks, lo + 1, hi)

\* JSON.parse: the text is one object, white space allowed between its
\* tokens; anything else is a SyntaxError (ok = FALSE).
JSONparse(toks, obj) ==
    LET t == SelectSeq(toks, LAMBDA x : x # "WS")
    IN IF t = <<"LB", "M", "RB">> THEN [ok |-> TRUE, value |-> obj]
       ELSE IF t = <<"LB", "RB">> THEN [ok |-> TRUE, value |-> EmptyObject]
       ELSE [ok |-> FALSE, value |-> EmptyObject]

FoodCategories == {"vegetables", "fruits", "grains", "protein", "dairy"}
ConfidenceLevels == {"high", "medium", "low"}

\* The validation without its two food_category tests.
isValidNutritionResponse_NoCategory(data) ==
    /\ TypeOf(data.food_description) = "string"
    /\ TypeOf(data.estimated_serving) = "string"
    /\ TypeOf(data.calories) = "number"
    /\ TypeOf(data.protein) = "number"
    /\ TypeOf(data.carbs) = "number"
    /\ TypeOf(data.fat) = "number"
    /\ \E c \in ConfidenceLevels : data.confidence = JStr(c)

\* typeof data === 'object' holds of whatever JSON.parse gave for a text
\* that starts with { and ends with }.
isValidNutritionResponse(data) ==
    /\ TypeOf(data.food_description) = "string"
    /\ TypeOf(data.estimated_serving) = "string"
    /\ TypeOf(data.food_category) = "string"
    /\ \E c \in FoodCategories : data.food_category = JStr(c)
    /\ TypeOf(data.calories) = "number"
    /\ TypeOf(data.protein) = "number"
    /\ TypeOf(data.carbs) = "number"
    /\ TypeOf(data.fat) = "number"
    /\ \E c \in ConfidenceLevels : data.confidence = JStr(c)

\* Lines 346-373: the inner try.  It returns the record or throws an Error
\* or, from JSON.parse, a SyntaxError.
tryParse(toks, obj) ==
    LET clean == cleanContent(toks)
        jsonStart == indexOf(clean, "LB")
        jsonEnd == lastIndexOf(clean, "RB")
        parsed == JSONparse(substring(clean, jsonStart, jsonEnd + 1), obj)
    IN IF jsonStart = 0 - 1 \/ jsonEnd = 0 - 1
       THEN [kind |-> "Error", msg |-> MsgNoJson, value |-> EmptyObject]
       ELSE IF ~parsed.ok
       THEN [kind |-> "SyntaxError", msg |-> NoMsg, value |-> EmptyObject]
       ELSE IF ~isValidNutritionResponse(parsed.value)
       THEN [kind |-> "Error", msg |-> MsgInvalidRecord, value |-> EmptyObject]
       ELSE [kind |-> "returned", msg |-> NoMsg, value |-> parsed.value]

\* Lines 346-384: the inner try with its catch, which replaces whatever was
\* thrown by one of two messages.
parseNutrition(toks, obj) ==
    LET r == tryParse(toks, obj)
    IN IF r.kind = "returned" THEN r
       ELSE IF r.kind = "SyntaxError"
       THEN [kind |-> "threw", msg |-> MsgBadFormat, value |-> EmptyObject]
       ELSE [kind |-> "threw", msg |-> MsgParseFailed, value |-> EmptyObject]

\* Lines 386-413: the outer catch on an AxiosError.
axiosErrorMessage(reply) ==
    LET status == reply.status
        message == IF reply.kind = "http" /\ reply.msg # ""
                   THEN reply.msg
                   ELSE IF reply.kind = "http" THEN AxiosStatusMessage(status)
                   ELSE reply.msg
    IN CASE reply.kind = "http" /\ status = 401 -> MsgInvalidKey
         [] reply.kind = "http" /\ status = 429 -> MsgRateLimit
         [] reply.kind = "http" /\ status = 500 -> MsgServiceError
         [] OTHER -> MsgApiError(message)

\* Lines 331-421: what analyzeFood does with the reply to its request.
analyzeReply(reply) ==
    IF reply.kind # "ok"
    THEN [kind |-> "threw", msg |-> axiosErrorMessage(reply), value |-> EmptyObject]
    ELSE IF reply.choices = "missing"
    THEN [kind |-> "threw", msg |-> MsgTypeError, value |-> EmptyObject]
    ELSE IF reply.choices = "empty" \/ reply.toks = <<>>
    THEN [kind |-> "threw", msg |-> MsgNoContent, value |-> EmptyObject]
    ELSE parseNutrition(reply.toks, reply.obj)

\* The failure category of a call, told from its input alone: the key, the
\* way the request ended, whether the content is JSON, whether the JSON is
\* a nutrition record.
FailureCategory(apiKey, reply) ==
    LET clean == cleanContent(reply.toks)
        parsed == JSONparse(substring(clean, indexOf(clean, "LB"),
                                      lastIndexOf(clean, "RB") + 1), reply.obj)
    IN CASE apiKey = "" -> "missing key"
         [] reply.kind = "transport" -> "transport"
         [] reply.kind = "http" /\ reply.status = 429 -> "http 429"
         [] reply.kind = "http" /\ reply.status = 401 -> "http 401"
         [] reply.kind = "http" /\ reply.status >= 500 -> "http 5xx"
         [] reply.kind = "http" -> "http other"
         [] reply.choices # "content" \/ reply.toks = <<>> -> "no content"
         [] ~parsed.ok -> "malformed"
         [] ~isValidNutritionResponse(parsed.value) -> "schema"
         [] OTHER -> "none"

---------------------------------------------------------------------------
(* OpenRouterService: the calls.                                           *)

\* The failure a finished analyzeFood call leaves behind for comparison
\* with the next one.
Remember ==
    IF outcome.op = "analyzeFood" /\ outcome.kind = "threw"
    THEN [cat |-> outcome.cat, msg |-> outcome.msg]
    ELSE prevFailure

setApiKey(apiKey) ==
    /\ AppReady
    /\ config' = [config EXCEPT !.apiKey = apiKey]
    /\ UNCHANGED <<pending, callRequests, outcome, prevFailure, lastReply>>
    /\ UNCHANGED <<dbVars, initVars, waterVars, secureKey, dbRet, lastSet, now, uiVars>>

setModel(model) ==
    /\ AppReady
    /\ config' = [config EXCEPT !.model = model]
    /\ UNCHANGED <<pending, callRequests, outcome, prevFailure, lastReply>>
    /\ UNCHANGED <<dbVars, initVars, waterVars, secureKey, dbRet, lastSet, now, uiVars>>

\* analyzeFood up to the await of axios.post, with the key guard left out.
analyzeFood_NoKeyGuard ==
    /\ AppReady
    /\ pending = NoPending
    /\ prevFailure' = Remember
    /\ pending' = [op |-> "analyzeFood", model |-> config.model, key |-> config.apiKey]
    /\ callRequests' = 1
    /\ outcome' = NoOutcome
    /\ lastReply' = NoReply
    /\ UNCHANGED config
    /\ UNCHANGED <<dbVars, initVars, waterVars, secureKey, dbRet, lastSet, now, uiVars>>

\* analyzeFood up to the await of axios.post: an empty key throws before
\* the try block, otherwise the request goes out.
analyzeFood ==
    /\ AppReady
    /\ pending = NoPending
    /\ prevFailure' = Remember
    /\ IF config.apiKey = ""
       THEN /\ outcome' = Outcome("analyzeFood", "threw", MsgNoKey, EmptyObject, "",
                                  "missing key", EmptyObject)
            /\ callRequests' = 0
            /\ UNCHANGED pending
       ELSE /\ pending' = [op |-> "analyzeFood", model |-> config.model,
                           key |-> config.apiKey]
            /\ callRequests' = 1
            /\ outcome' = NoOutcome
    /\ lastReply' = NoReply
    /\ UNCHANGED config
    /\ UNCHANGED <<dbVars, initVars, waterVars, secureKey, dbRet, lastSet, now, uiVars>>

\* A resumption that sends the request once more after a failed reply.
analyzeFoodResume_Retry(reply) ==
    /\ pending.op = "analyzeFood"
    /\ IF reply.kind # "ok" /\ callRequests < 2
       THEN /\ callRequests' = callRequests + 1
            /\ UNCHANGED <<pending, outcome>>
       ELSE /\ LET r == analyzeReply(reply)
               IN outcome' = Outcome("analyzeFood", r.kind, r.msg, r.value, "",
                                     FailureCategory(pending.key, reply), reply.obj)
            /\ pending' = NoPending
            /\ UNCHANGED callRequests
    /\ lastReply' = reply
    /\ UNCHANGED <<config, prevFailure>>
    /\ UNCHANGED <<dbVars, initVars, waterVars, secureKey, dbRet, lastSet, now, uiVars>>

\* analyzeFood from the await on: the request ends with reply.
analyzeFoodResume(reply) ==
    /\ pending.op = "analyzeFood"
    /\ LET r == analyzeReply(reply)
       IN outcome' = Outcome("analyzeFood", r.kind, r.msg, r.value, "",
                             FailureCategory(pending.key, reply), reply.obj)
    /\ pending' = NoPending
    /\ lastReply' = reply
    /\ UNCHANGED <<config, callRequests, prevFailure>>
    /\ UNCHANGED <<dbVars, initVars, waterVars, secureKey, dbRet, lastSet, now, uiVars>>

\* generateNutritionTip up to the await of axios.post.
generateNutritionTip ==
    /\ AppReady
    /\ pending = NoPending
    /\ prevFailure' = Remember
    /\ IF config.apiKey = ""
       THEN /\ outcome' = Outcome("generateNutritionTip", "threw", MsgNoKey,
                                  EmptyObject, "", "missing key", EmptyObject)
            /\ callRequests' = 0
            /\ UNCHANGED pending
       ELSE /\ pending' = [op |-> "generateNutritionTip", model |-> config.model,
                           key |-> config.apiKey]
            /\ callRequests' = 1
            /\ outcome' = NoOutcome
    /\ lastReply' = NoReply
    /\ UNCHANGED config
    /\ UNCHANGED <<dbVars, initVars, waterVars, secureKey, dbRet, lastSet, now, uiVars>>

\* The sentence generateNutritionTip returns for a reply.
tipText(reply) ==
    IF reply.kind # "ok" \/ reply.choices = "missing" THEN TipWhenFailed
    ELSE IF reply.choices = "empty" \/ reply.msg = "" THEN TipWhenEmpty
    ELSE reply.msg

\* generateNutritionTip from the await on.
generateNutritionTipResume(reply) ==
    /\ pending.op = "generateNutritionTip"
    /\ outcome' = Outcome("generateNutritionTip", "returned", NoMsg, EmptyObject,
                          tipText(reply), "none", EmptyObject)
    /\ pending' = NoPending
    /\ lastReply' = reply
    /\ UNCHANGED <<config, callRequests, prevFailure>>
    /\ UNCHANGED <<dbVars, initVars, waterVars, secureKey, dbRet, lastSet, now, uiVars>>

---------------------------------------------------------------------------
(* OpenRouterService: testConnection and getAvailableModels.               *)

\* Replies to axios.get(.../models): axios rejects on a transport failure
\* and on every status outside 2xx; 204 is a 2xx status other than 200.
ConnectionReplies ==
    ErrorReplies
    \cup {Reply("ok", st, "", "missing", <<>>, EmptyObject) : st \in {200, 204}}

\* testConnection up to the await of axios.get.
testConnection ==
    /\ AppReady
    /\ pending = NoPending
    /\ prevFailure' = Remember
    /\ IF config.apiKey = ""
       THEN /\ outcome' = OutcomeFlag("testConnection", FALSE)
            /\ callRequests' = 0
            /\ UNCHANGED pending
       ELSE /\ pending' = [op |-> "testConnection", model |-> config.model,
                           key |-> config.apiKey]
            /\ callRequests' = 1
            /\ outcome' = NoOutcome
    /\ lastReply' = NoReply
    /\ UNCHANGED config
    /\ UNCHANGED <<dbVars, initVars, waterVars, secureKey, dbRet, lastSet, now, uiVars>>

\* testConnection from the await on: response.status === 200, false from
\* the catch.
testConnectionResume(reply) ==
    /\ pending.op = "testConnection"
    /\ outcome' = OutcomeFlag("testConnection",
                              reply.kind = "ok" /\ reply.status = 200)
    /\ pending' = NoPending
    /\ lastReply' = reply
    /\ UNCHANGED <<config, callRequests, prevFailure>>
    /\ UNCHANGED <<dbVars, initVars, waterVars, secureKey, dbRet, lastSet, now, uiVars>>

\* The two hardcoded lists of getAvailableModels.
FallbackModels ==
    <<"anthropic/claude-3.5-sonnet", "anthropic/claude-3-haiku", "openai/gpt-4o",
      "openai/gpt-4o-mini", "google/gemini-pro-1.5",
      "meta-llama/llama-3.1-8b-instruct">>
FewFallbackModels ==
    <<"anthropic/claude-3.5-sonnet", "anthropic/claude-3-haiku", "openai/gpt-4o",
      "openai/gpt-4o-mini">>

\* Model ids a catalogue may list; NoId is an entry without an id.
NoId == "<no id>"
CatalogIds == {"openai/gpt-4o", "Anthropic/Claude-3-Opus",
               "mistralai/mixtral-8x7b", NoId}
\* id.toLowerCase() includes 'claude', 'gpt-4', 'gemini' or 'llama-3'.
IsPopular(id) == id \in {"openai/gpt-4o", "Anthropic/Claude-3-Opus"}
\* The place of an id in the order of Array.prototype.sort (UTF-16 code
\* units: capitals first).
SortRank(id) ==
    CASE id = "Anthropic/Claude-3-Opus" -> 1
      [] id = "mistralai/mixtral-8x7b" -> 2
      [] id = "openai/gpt-4o" -> 3
      [] OTHER -> 4

\* Replies to fetch(.../models): fetch rejects only on a transport failure;
\* a reply with any status resolves.  The body is no JSON ("malformed"),
\* JSON without a data array ("missing") or a catalogue, its ids in toks.
CatalogLists ==
    {<<>>} \cup {<<a>> : a \in CatalogIds}
           \cup {<<a, b>> : a \in CatalogIds, b \in CatalogIds}
ModelsReplies ==
    ErrorReplies
    \cup {Reply("ok", 200, "", c, <<>>, EmptyObject) : c \in {"malformed", "missing"}}
    \cup {Reply("ok", 200, "", "content", ids, EmptyObject) : ids \in CatalogLists}

\* Array.prototype.sort on a list of ids.
RECURSIVE SortIds(_)
SortIds(ids) ==
    IF ids = <<>> THEN <<>>
    ELSE LET least == CHOOSE i \in 1..Len(ids) :
                          \A k \in 1..Len(ids) : SortRank(ids[i]) <= SortRank(ids[k])
         IN <<ids[least]>>
            \o SortIds(SubSeq(ids, 1, least - 1) \o SubSeq(ids, least + 1, Len(ids)))

\* The list without the fallback for an empty selection.
availableModels_NoFallback(reply) ==
    IF reply.kind # "ok" \/ reply.choices # "content" THEN FallbackModels
    ELSE IF \E i \in 1..Len(reply.toks) : reply.toks[i] = NoId THEN FallbackModels
    ELSE SortIds(SelectSeq(reply.toks, IsPopular))

\* Lines 179-227 of the first listing: what getAvailableModels returns for
\* a reply.  !response.ok, a rejected json(), data.data undefined and an
\* entry whose id is undefined all throw inside the try and end in the catch.
availableModels(reply) ==
    IF reply.kind # "ok" \/ reply.choices # "content" THEN FallbackModels
    ELSE IF \E i \in 1..Len(reply.toks) : reply.toks[i] = NoId THEN FallbackModels
    ELSE LET popularModels == SortIds(SelectSeq(reply.toks, IsPopular))
         IN IF Len(popularModels) > 0 THEN popularModels ELSE FewFallbackModels

\* getAvailableModels up to the await of fetch.
getAvailableModels ==
    /\ AppReady
    /\ pending = NoPending
    /\ prevFailure' = Remember
    /\ IF config.apiKey = ""
       THEN /\ outcome' = OutcomeList("getAvailableModels", FallbackModels)
            /\ callRequests' = 0
            /\ UNCHANGED pending
       ELSE /\ pending' = [op |-> "getAvailableModels", model |-> config.model,
                           key |-> config.apiKey]
            /\ callRequests' = 1
            /\ outcome' = NoOutcome
    /\ lastReply' = NoReply
    /\ UNCHANGED config
    /\ UNCHANGED <<dbVars, initVars, waterVars, secureKey, dbRet, lastSet, now, uiVars>>

\* getAvailableModels from the await on.
getAvailableModelsResume(reply) ==
    /\ pending.op = "getAvailableModels"
    /\ outcome' = OutcomeList("getAvailableModels", availableModels(reply))
    /\ pending' = NoPending
    /\ lastReply' = reply
    /\ UNCHANGED <<config, callRequests, prevFailure>>
    /\ UNCHANGED <<dbVars, initVars, waterVars, secureKey, dbRet, lastSet, now, uiVars>>

---------------------------------------------------------------------------
(* Settings: getSetting / setSetting.                                      *)

\* Indices of the settings rows a WHERE user_id = ? AND setting_key = ? keeps.
SettingMatches(key, userId) ==
    {i \in 1..Len(settings) :
        settings[i].user_id = userId /\ settings[i].setting_key = key}

\* result?.setting_value || null : a missing row and an empty value give null.
OrNull(s) == IF s = "" THEN Null ELSE s

\* getSetting: SELECT setting_value ... with no ORDER BY and getFirstAsync.
\* SQL leaves the order of the matching rows open, so any of them may be the
\* first one.
getSetting(key, userId) ==
    /\ AppReady
    /\ \/ /\ SettingMatches(key, userId) = {}
          /\ dbRet' = Ret("getSetting", TRUE, key, Null, userId)
       \/ \E i \in SettingMatches(key, userId) :
             dbRet' = Ret("getSetting", TRUE, key,
                          OrNull(settings[i].setting_value), userId)
    /\ UNCHANGED <<dbVars, initVars, waterVars, secureKey, lastSet>>
    /\ UNCHANGED <<clientVars, now, uiVars>>

\* The table after INSERT OR REPLACE INTO settings (user_id, setting_key,
\* setting_value).  REPLACE acts on a PRIMARY KEY / UNIQUE conflict only; the
\* table's one key is the AUTOINCREMENT id, which the statement does not
\* supply, so no row ever conflicts and the row is appended.
InsertOrReplaceSetting(rows, id, key, value, userId) ==
    Append(SelectSeq(rows, LAMBDA r : r.id # id),
           [id |-> id, user_id |-> userId, setting_key |-> key,
            setting_value |-> value])

setSetting(key, value, userId) ==
    /\ AppReady
    /\ sqlite_sequence["settings"] < MaxRowId
    /\ IF UserExists(userId)
       THEN /\ settings' = InsertOrReplaceSetting(settings,
                              sqlite_sequence["settings"] + 1, key, value, userId)
            /\ sqlite_sequence' =
                 [sqlite_sequence EXCEPT !["settings"] = @ + 1]
            /\ lastSet' = [lastSet EXCEPT ![<<userId, key>>] = value]
            /\ dbRet' = Ret("setSetting", TRUE, key, value, userId)
       ELSE \* FOREIGN KEY constraint failed: the call raises
            /\ dbRet' = Ret("setSetting", FALSE, key, value, userId)
            /\ UNCHANGED <<settings, sqlite_sequence, lastSet>>
    /\ UNCHANGED <<tables, usersCols, users, water_intake, food_entries,
                   initVars, waterVars, secureKey>>
    /\ UNCHANGED <<clientVars, now, uiVars>>

---------------------------------------------------------------------------
(* Settings screen: 'Clear All Data' -> 'Delete All'.                      *)

\* db.execAsync(DELETE FROM food_entries; DELETE FROM water_intake;
\* DELETE FROM settings; UPDATE users SET calorie_goal = 2000,
\* water_goal = 2500 WHERE id = 1), then SecureStore.deleteItemAsync.
\* A reset that also takes the user back to before onboarding.
ResetGoals_ClearsSetup(row) ==
    IF row.id = 1 THEN [row EXCEPT !.calorie_goal = 2000, !.water_goal = 2500,
                                   !.setup_completed = 0]
    ELSE row

ResetGoals(row) ==
    IF row.id = 1 THEN [row EXCEPT !.calorie_goal = 2000, !.water_goal = 2500]
    ELSE row

clearAllData ==
    /\ AppReady
    /\ food_entries' = <<>>
    /\ water_intake' = <<>>
    /\ settings' = <<>>
    /\ users' = [i \in 1..Len(users) |-> ResetGoals(users[i])]
    /\ secureKey' = ""
    /\ dbRet' = Ret("clearAllData", TRUE, Null, Null, 0)
    /\ UNCHANGED <<tables, usersCols, sqlite_sequence, initVars, waterVars, lastSet>>
    /\ UNCHANGED <<clientVars, now, uiVars>>

---------------------------------------------------------------------------
(* The settings store on an initialized database.                          *)

InitializedDb ==
    /\ tables = AllTables
    /\ usersCols = AllUserCols
    /\ users = <<DefaultUser>>
    /\ settings = <<>>
    /\ water_intake = <<>>
    /\ food_entries = <<>>
    /\ sqlite_sequence = [t \in AllTables |-> IF t = "users" THEN 1 ELSE 0]
    /\ initPc = "done"
    /\ columnNames = AllUserCols
    /\ alterIdx = Len(columnsToAdd) + 1
    /\ initCalls = 1
    /\ ClientInitial
    /\ now = 1
    /\ selectedDate = Today
    /\ waterIntake = 0
    /\ waterLoads = <<>>

InitSettings ==
    /\ InitializedDb
    /\ secureKey \in {"", "sk-1"}
    /\ dbRet = NoRet
    /\ lastSet = [p \in UserIds \X SettingKeys |-> Never]

NextSettings ==
    \/ \E k \in SettingKeys, v \in SettingValues, u \in UserIds : setSetting(k, v, u)
    \/ \E k \in SettingKeys, u \in UserIds : getSetting(k, u)
    \/ clearAllData

SpecSettings == InitSettings /\ [][NextSettings]_vars

---------------------------------------------------------------------------
(* initializeDatabase and migrateUsersTable, one action per awaited        *)
(* statement.  RootLayout's onInit calls initializeDatabase at each launch.*)

InitRunning == initPc \in {"create", "tableInfo", "alter", "count", "insert"}

\* An app launch: SQLiteProvider opens the database and calls onInit.
Launch ==
    /\ initPc \in {"idle", "done", "failed"}
    /\ initCalls < MaxLaunches
    /\ initPc' = "create"
    /\ initCalls' = initCalls + 1
    /\ dbRet' = NoRet
    \* a fresh process: the screens' React state starts over
    /\ selectedDate' = Today
    /\ waterIntake' = 0
    /\ waterLoads' = <<>>
    /\ config' = DEFAULT_CONFIG
    /\ pending' = NoPending
    /\ callRequests' = 0
    /\ outcome' = NoOutcome
    /\ prevFailure' = NoFailure
    /\ lastReply' = NoReply
    /\ screen' = ScreenInitial
    /\ dailyCall' = NoDailyCall
    /\ UNCHANGED <<dbVars, columnNames, alterIdx, secureKey, lastSet, now>>

\* execAsync(PRAGMA ...; CREATE TABLE IF NOT EXISTS users / food_entries /
\* water_intake / settings): a table that exists is left as it is.
createTables ==
    /\ initPc = "create"
    /\ tables' = AllTables
    /\ usersCols' = IF "users" \in tables THEN usersCols ELSE AllUserCols
    /\ initPc' = "tableInfo"
    /\ UNCHANGED <<users, settings, water_intake, food_entries, sqlite_sequence,
                   columnNames, alterIdx, initCalls, waterVars, secureKey, dbRet,
                   lastSet>>
    /\ UNCHANGED <<clientVars, now, uiVars>>

\* migrateUsersTable: PRAGMA table_info(users).  When the statement raises,
\* the catch block logs and migrateUsersTable returns.
migrateTableInfo ==
    /\ initPc = "tableInfo"
    /\ \/ /\ columnNames' = usersCols
          /\ alterIdx' = 1
          /\ initPc' = "alter"
       \/ /\ initPc' = "count"
          /\ UNCHANGED <<columnNames, alterIdx>>
    /\ UNCHANGED <<dbVars, initCalls, waterVars, secureKey, dbRet, lastSet>>
    /\ UNCHANGED <<clientVars, now, uiVars>>

\* An existing row after ALTER TABLE users ADD COLUMN col: NULL, or the
\* column's DEFAULT (0 for setup_completed).
AddColumn(row, col) ==
    CASE col = "weight" -> [row EXCEPT !.weight = SqlNull]
      [] col = "age" -> [row EXCEPT !.age = SqlNull]
      [] col = "activity_level" -> [row EXCEPT !.activity_level = Null]
      [] col = "weight_goal" -> [row EXCEPT !.weight_goal = Null]
      [] col = "setup_completed" -> [row EXCEPT !.setup_completed = 0]
      [] OTHER -> row

\* migrateUsersTable: one iteration of the loop over columnsToAdd.  A column
\* the snapshot already lists is skipped; otherwise ALTER TABLE runs, and when
\* it raises the catch block ends the migration with the rest not added.
migrateAlter ==
    /\ initPc = "alter"
    /\ IF alterIdx > Len(columnsToAdd)
       THEN /\ initPc' = "count"
            /\ UNCHANGED <<usersCols, users, alterIdx>>
       ELSE IF columnsToAdd[alterIdx] \in columnNames
       THEN /\ alterIdx' = alterIdx + 1
            /\ UNCHANGED <<usersCols, users, initPc>>
       ELSE \/ /\ usersCols' = usersCols \cup {columnsToAdd[alterIdx]}
               /\ users' = [i \in 1..Len(users) |->
                               AddColumn(users[i], columnsToAdd[alterIdx])]
               /\ alterIdx' = alterIdx + 1
               /\ UNCHANGED initPc
            \/ /\ initPc' = "count"
               /\ UNCHANGED <<usersCols, users, alterIdx>>
    /\ UNCHANGED <<tables, settings, water_intake, food_entries, sqlite_sequence,
                   columnNames, initCalls, waterVars, secureKey, dbRet, lastSet>>
    /\ UNCHANGED <<clientVars, now, uiVars>>

\* SELECT COUNT(*) as count FROM users WHERE id = 1
userExistsCount == Cardinality({i \in 1..Len(users) : users[i].id = 1})

countDefaultUser ==
    /\ initPc = "count"
    /\ IF userExistsCount = 0
       THEN initPc' = "insert" /\ UNCHANGED dbRet
       ELSE /\ initPc' = "done"
            /\ dbRet' = Ret("initializeDatabase", TRUE, Null, Null, 0)
    /\ UNCHANGED <<dbVars, columnNames, alterIdx, initCalls, waterVars, secureKey,
                   lastSet>>
    /\ UNCHANGED <<clientVars, now, uiVars>>

\* INSERT INTO users (id, name, calorie_goal, water_goal, setup_completed)
\* VALUES (1, 'Default User', 2000, 2500, 0).  The statement names
\* setup_completed: on a table without that column SQLite raises, and, being
\* outside migrateUsersTable's try block, the error leaves initializeDatabase.
insertDefaultUser ==
    /\ initPc = "insert"
    /\ IF "setup_completed" \in usersCols /\ ~UserExists(DefaultUser.id)
       THEN /\ users' = Append(users, RowForCols(DefaultUser, usersCols))
            /\ sqlite_sequence' = [sqlite_sequence EXCEPT !["users"] =
                                     IF @ < DefaultUser.id THEN DefaultUser.id ELSE @]
            /\ initPc' = "done"
            /\ dbRet' = Ret("initializeDatabase", TRUE, Null, Null, 0)
       ELSE /\ initPc' = "failed"
            /\ dbRet' = Ret("initializeDatabase", FALSE, Null, Null, 0)
            /\ UNCHANGED <<users, sqlite_sequence>>
    /\ UNCHANGED <<tables, usersCols, settings, water_intake, food_entries,
                   columnNames, alterIdx, initCalls, waterVars, secureKey, lastSet>>
    /\ UNCHANGED <<clientVars, now, uiVars>>

initializeDatabase ==
    \/ createTables
    \/ migrateTableInfo
    \/ migrateAlter
    \/ countDefaultUser
    \/ insertDefaultUser

---------------------------------------------------------------------------
(* User operations.                                                        *)

\* Inputs of the user operations.
UserNames == {"Default User", "Ann"}
CalorieGoalInputs == {1800, 2000}
WaterGoalInputs == {2500, 3000}
WeightInputs == {70}
AgeInputs == {30, 70}
ActivityInputs == {"sedentary", "moderate"}
WeightGoalInputs == {"maintain", "lose_steady"}
\* An optional number argument: given = FALSE is undefined.
NoNumber == [given |-> FALSE, n |-> 0]
Given(n) == [given |-> TRUE, n |-> n]

\* The rows after UPDATE users SET ... WHERE id = userId, updated[i] being
\* row i with the SET clause applied.
UpdateUsersWhereId(userId, updated) ==
    [i \in 1..Len(users) |-> IF users[i].id = userId THEN updated[i] ELSE users[i]]

\* A goal update with its two values exchanged.
updateUserGoals_Swapped(calorieGoal, waterGoal, userId) ==
    /\ AppReady
    /\ LET upd(row) == [row EXCEPT !.calorie_goal = waterGoal,
                                   !.water_goal = calorieGoal]
       IN users' = UpdateUsersWhereId(userId,
                        [i \in 1..Len(users) |-> upd(users[i])])
    /\ dbRet' = Ret("updateUserGoals", TRUE, Null, Null, userId)
    /\ UNCHANGED <<tables, usersCols, settings, water_intake, food_entries,
                   sqlite_sequence, initVars, waterVars, secureKey, lastSet>>
    /\ UNCHANGED <<clientVars, now, uiVars>>

\* getUser: SELECT * FROM users WHERE id = ? through getFirstAsync; the
\* empty sequence stands for null.
getUser(userId) == SelectSeq(users, LAMBDA r : r.id = userId)

\* A call of DatabaseService.getUser.
getUserCall(userId) ==
    /\ AppReady
    /\ dbRet' = RetOf("getUser", <<userId>>, 0, getUser(userId))
    /\ UNCHANGED <<dbVars, initVars, waterVars, secureKey, lastSet>>
    /\ UNCHANGED <<clientVars, now, uiVars>>

updateUserGoals(calorieGoal, waterGoal, userId) ==
    /\ AppReady
    /\ LET upd(row) == [row EXCEPT !.calorie_goal = calorieGoal,
                                   !.water_goal = waterGoal]
       IN users' = UpdateUsersWhereId(userId,
                        [i \in 1..Len(users) |-> upd(users[i])])
    /\ dbRet' = Ret("updateUserGoals", TRUE, Null, Null, userId)
    /\ UNCHANGED <<tables, usersCols, settings, water_intake, food_entries,
                   sqlite_sequence, initVars, waterVars, secureKey, lastSet>>
    /\ UNCHANGED <<clientVars, now, uiVars>>

updateUserName(name, userId) ==
    /\ AppReady
    /\ LET upd(row) == [row EXCEPT !.name = name]
       IN users' = UpdateUsersWhereId(userId,
                        [i \in 1..Len(users) |-> upd(users[i])])
    /\ dbRet' = Ret("updateUserName", TRUE, Null, Null, userId)
    /\ UNCHANGED <<tables, usersCols, settings, water_intake, food_entries,
                   sqlite_sequence, initVars, waterVars, secureKey, lastSet>>
    /\ UNCHANGED <<clientVars, now, uiVars>>

\* Math.round(n / d) for d > 0: floor(n / d + 1/2).
RoundDiv(n, d) == (2 * n + d) \div (2 * d)

\* activityMultipliers[activityLevel] || 1.2, times 1000.
ActivityMultiplier1000(activityLevel) ==
    CASE activityLevel = "sedentary" -> 1200
      [] activityLevel = "light" -> 1375
      [] activityLevel = "moderate" -> 1550
      [] activityLevel = "active" -> 1725
      [] activityLevel = "very_active" -> 1900
      [] OTHER -> 1200

\* The deficit of the switch on weightGoal.
GoalDeficit(weightGoal) ==
    CASE weightGoal = "lose_aggressive" -> 750
      [] weightGoal = "lose_steady" -> 500
      [] OTHER -> 0

\* A calorie goal that takes the deficit off the basal rate, before the
\* activity multiplier.
calculateCalorieGoal_DeficitFirst(weight, age, activityLevel, weightGoal) ==
    LET bmr4 == 40 * weight + 25 * 175 - 20 * age + 20
        tdee4000 == (bmr4 - 4 * GoalDeficit(weightGoal))
                        * ActivityMultiplier1000(activityLevel)
    IN RoundDiv(tdee4000, 4000)

\* calculateCalorieGoal.  bmr = 10*weight + 6.25*175 - 5*age + 5 is kept as
\* 4*bmr and tdee as 4000*tdee, so the arithmetic is exact in integers.
calculateCalorieGoal(weight, age, activityLevel, weightGoal) ==
    LET bmr4 == 40 * weight + 25 * 175 - 20 * age + 20
        tdee4000 == bmr4 * ActivityMultiplier1000(activityLevel)
    IN RoundDiv(tdee4000 - 4000 * GoalDeficit(weightGoal), 4000)

\* calculateWaterGoal: Math.round(weight * 35 * (age > 65 ? 1.1 : 1.0)).
calculateWaterGoal(weight, age) ==
    RoundDiv(weight * 35 * (IF age > 65 THEN 11 ELSE 10), 10)

\* x || y for an optional number x: undefined and 0 are falsy.
OrElse(x, y) == IF x.given /\ x.n # 0 THEN x.n ELSE y

\* updateUserProfile: the UPDATE names the migrated columns, so it raises on
\* a users table that lacks one of them.
updateUserProfile(profile, userId) ==
    /\ AppReady
    /\ IF NewUserCols \subseteq usersCols
       THEN /\ LET calorieGoal ==
                     OrElse(profile.calorie_goal,
                            calculateCalorieGoal(profile.weight, profile.age,
                               profile.activity_level, profile.weight_goal))
                   waterGoal ==
                     OrElse(profile.water_goal,
                            calculateWaterGoal(profile.weight, profile.age))
                   upd(row) ==
                     [row EXCEPT !.name = profile.name,
                                 !.weight = profile.weight,
                                 !.age = profile.age,
                                 !.activity_level = profile.activity_level,
                                 !.weight_goal = profile.weight_goal,
                                 !.calorie_goal = calorieGoal,
                                 !.water_goal = waterGoal,
                                 !.setup_completed = 1]
               IN users' = UpdateUsersWhereId(userId,
                        [i \in 1..Len(users) |-> upd(users[i])])
            /\ dbRet' = Ret("updateUserProfile", TRUE, Null, Null, userId)
       ELSE /\ dbRet' = Ret("updateUserProfile", FALSE, Null, Null, userId)
            /\ UNCHANGED users
    /\ UNCHANGED <<tables, usersCols, settings, water_intake, food_entries,
                   sqlite_sequence, initVars, waterVars, secureKey, lastSet>>
    /\ UNCHANGED <<clientVars, now, uiVars>>

ProfileInputs ==
    [name : {"Ann"}, weight : WeightInputs, age : AgeInputs,
     activity_level : ActivityInputs, weight_goal : WeightGoalInputs,
     calorie_goal : {NoNumber, Given(1800)}, water_goal : {NoNumber}]

---------------------------------------------------------------------------
(* The user row written and read back (SpecUser).                          *)

InitUser ==
    /\ InitializedDb
    /\ secureKey = ""
    /\ dbRet = NoRet
    /\ lastSet = [p \in UserIds \X SettingKeys |-> Never]

NextUser ==
    \/ \E c \in CalorieGoalInputs, w \in WaterGoalInputs, u \in UserIds :
          updateUserGoals(c, w, u)
    \/ \E n \in UserNames, u \in UserIds : updateUserName(n, u)
    \/ \E p \in ProfileInputs, u \in UserIds : updateUserProfile(p, u)
    \/ \E u \in UserIds : getUserCall(u)
    \/ clearAllData

SpecUser == InitUser /\ [][NextUser]_vars

---------------------------------------------------------------------------
(* Goal resolution of updateUserProfile (SpecProfile).                     *)

\* Profiles as completeOnboarding and other callers can pass them: every
\* activity level and one the table does not know, every weight goal, ages
\* around 65, and goals omitted, zero or positive.
GoalProfileInputs ==
    [name : {"Ann"}, weight : {70}, age : {30, 65, 66},
     activity_level : {"sedentary", "light", "moderate", "active",
                       "very_active", "athlete"},
     weight_goal : {"maintain", "lose_steady", "lose_aggressive"},
     calorie_goal : {NoNumber, Given(0), Given(1800)},
     water_goal : {NoNumber, Given(0), Given(2500)}]

InitProfile == InitUser

NextProfile ==
    \/ \E p \in GoalProfileInputs, u \in UserIds : updateUserProfile(p, u)
    \/ \E u \in UserIds : getUserCall(u)

SpecProfile == InitProfile /\ [][NextProfile]_vars

---------------------------------------------------------------------------
(* Launches of the app over a new or an existing database file.            *)

\* A users row an earlier release left behind.
OldUserRows == {DefaultUser, [DefaultUser EXCEPT !.name = "Ann", !.calorie_goal = 1800]}

\* Before the first launch of this release the database file is either new
\* (no table) or was made by an earlier release: the four tables exist, users
\* has the base columns and any of the migrated ones, and the default row is
\* there unless that release stopped between its CREATE TABLE and its INSERT
\* (the statements are not in one transaction).
InitLaunch ==
    /\ \/ /\ tables = {}
          /\ usersCols = {}
          /\ users = <<>>
          /\ sqlite_sequence = [t \in AllTables |-> 0]
       \/ /\ tables = AllTables
          /\ \E cols \in SUBSET NewUserCols :
                /\ usersCols = BaseUserCols \cup cols
                /\ \/ /\ users = <<>>
                      /\ sqlite_sequence = [t \in AllTables |-> 0]
                   \/ /\ \E row \in OldUserRows :
                            users = <<RowForCols(row, usersCols)>>
                      /\ sqlite_sequence =
                           [t \in AllTables |-> IF t = "users" THEN 1 ELSE 0]
    /\ settings = <<>>
    /\ water_intake = <<>>
    /\ food_entries = <<>>
    /\ initPc = "idle"
    /\ columnNames = {}
    /\ alterIdx = 1
    /\ initCalls = 0
    /\ ClientInitial
    /\ now = 1
    /\ selectedDate = Today
    /\ waterIntake = 0
    /\ waterLoads = <<>>
    /\ secureKey = ""
    /\ dbRet = NoRet
    /\ lastSet = [p \in UserIds \X SettingKeys |-> Never]

NextLaunch ==
    \/ Launch
    \/ initializeDatabase
    \/ \E c \in CalorieGoalInputs, w \in WaterGoalInputs, u \in UserIds :
          updateUserGoals(c, w, u)
    \/ \E n \in UserNames, u \in UserIds : updateUserName(n, u)
    \/ \E p \in ProfileInputs, u \in UserIds : updateUserProfile(p, u)
    \/ clearAllData

SpecLaunch == InitLaunch /\ [][NextLaunch]_vars

---------------------------------------------------------------------------
(* Onboarding and the start screen across launches (SpecSetup).            *)

\* The profile completeOnboarding stores.
SetupProfileInputs ==
    [name : {"Ann"}, weight : {70}, age : {30},
     activity_level : {"moderate"}, weight_goal : {"maintain"},
     calorie_goal : {NoNumber}, water_goal : {NoNumber}]

\* !user || !user.setup_completed: no row, or a setup_completed that is
\* 0, NULL or absent.
NeedsOnboarding(user) ==
    \/ Len(user) = 0
    \/ user[1].setup_completed \in {0, SqlNull, NoCol}

\* IndexScreen.checkOnboardingStatus: getUser(), then router.replace.
checkOnboardingStatus ==
    /\ AppReady
    /\ LET user == getUser(DefaultUserId)
           route == IF NeedsOnboarding(user) THEN "/onboarding" ELSE "/(tabs)/"
       IN dbRet' = Ret("checkOnboardingStatus", TRUE, Null, route, 0)
    /\ UNCHANGED <<dbVars, initVars, waterVars, secureKey, lastSet>>
    /\ UNCHANGED <<clientVars, now, uiVars>>

InitSetup == InitLaunch

NextSetup ==
    \/ Launch
    \/ initializeDatabase
    \/ checkOnboardingStatus
    \/ \E u \in UserIds : updateUserGoals(1800, 3000, u)
    \/ \E u \in UserIds : updateUserName("Ann", u)
    \/ \E p \in SetupProfileInputs, u \in UserIds : updateUserProfile(p, u)
    \/ \E u \in UserIds : getUserCall(u)
    \/ clearAllData

SpecSetup == InitSetup /\ [][NextSetup]_vars

---------------------------------------------------------------------------
(* Water intake: the store's ledger and the water screen.                  *)

\* Amounts a user logs or removes (ml).
WaterAmounts == {250, 500}

\* A removal that edits the latest row in place instead of inserting.
InsertWaterIntake_InPlace(rows, id, amount, date, userId) ==
    IF amount < 0 /\ rows # <<>>
    THEN [rows EXCEPT ![Len(rows)].amount = @ + amount]
    ELSE Append(rows, [id |-> id, user_id |-> userId, amount |-> amount,
                       logged_date |-> date])

\* The table after INSERT INTO water_intake (user_id, amount, logged_date).
InsertWaterIntake(rows, id, amount, date, userId) ==
    Append(rows, [id |-> id, user_id |-> userId, amount |-> amount,
                  logged_date |-> date])

\* addWaterIntake(amount, date, userId): one INSERT; the FOREIGN KEY makes
\* it raise for a user that does not exist.
addWaterIntake(amount, date, userId) ==
    IF UserExists(userId)
    THEN /\ water_intake' = InsertWaterIntake(water_intake,
                               sqlite_sequence["water_intake"] + 1,
                               amount, date, userId)
         /\ sqlite_sequence' = [sqlite_sequence EXCEPT !["water_intake"] = @ + 1]
         /\ dbRet' = Ret("addWaterIntake", TRUE, Null, Null,
                         sqlite_sequence["water_intake"] + 1)
    ELSE /\ dbRet' = Ret("addWaterIntake", FALSE, Null, Null, 0)
         /\ UNCHANGED <<water_intake, sqlite_sequence>>

RECURSIVE SumAmounts(_)
SumAmounts(rows) ==
    IF rows = <<>> THEN 0 ELSE Head(rows).amount + SumAmounts(Tail(rows))

\* A total that stops at zero.
getWaterIntakeByDate_Floored(date, userId) ==
    LET total == SumAmounts(SelectSeq(water_intake,
                     LAMBDA r : r.user_id = userId /\ r.logged_date = date))
    IN IF total < 0 THEN 0 ELSE total

\* getWaterIntakeByDate: SELECT COALESCE(SUM(amount), 0) ... WHERE user_id = ?
\* AND logged_date = ?, then result?.total || 0.
getWaterIntakeByDate(date, userId) ==
    SumAmounts(SelectSeq(water_intake,
                  LAMBDA r : r.user_id = userId /\ r.logged_date = date))

isToday == selectedDate = Today

\* WaterScreen.addWater(amount): refused unless the day shown is today;
\* the insert is issued at once, loadData follows when it has completed.
addWater(amount) ==
    /\ AppReady
    /\ isToday
    /\ sqlite_sequence["water_intake"] < MaxRowId
    /\ Len(waterLoads) < MaxWaterLoads
    /\ addWaterIntake(amount, selectedDate, DefaultUserId)
    /\ waterLoads' = Append(waterLoads, selectedDate)
    /\ UNCHANGED <<tables, usersCols, users, settings, food_entries, initVars,
                   selectedDate, waterIntake, secureKey, lastSet>>
    /\ UNCHANGED <<clientVars, now, uiVars>>

\* The remove dialog's button (amount > 0 && amount <= waterIntake) and
\* WaterScreen.removeWater(amount): the removal is an insert of -amount.
removeWater(amount) ==
    /\ AppReady
    /\ amount > 0 /\ amount <= waterIntake
    /\ isToday
    /\ ~(waterIntake < amount)
    /\ sqlite_sequence["water_intake"] < MaxRowId
    /\ Len(waterLoads) < MaxWaterLoads
    /\ addWaterIntake(-amount, selectedDate, DefaultUserId)
    /\ waterLoads' = Append(waterLoads, selectedDate)
    /\ UNCHANGED <<tables, usersCols, users, settings, food_entries, initVars,
                   selectedDate, waterIntake, secureKey, lastSet>>
    /\ UNCHANGED <<clientVars, now, uiVars>>

RemoveAt(seq, i) == SubSeq(seq, 1, i - 1) \o SubSeq(seq, i + 1, Len(seq))

\* WaterScreen.loadData completing: setWaterIntake(getWaterIntakeByDate(
\* dateString)) for the dateString the call captured.
loadData ==
    /\ AppReady
    /\ \E i \in 1..Len(waterLoads) :
          /\ waterIntake' = getWaterIntakeByDate(waterLoads[i], DefaultUserId)
          /\ waterLoads' = RemoveAt(waterLoads, i)
    /\ UNCHANGED <<dbVars, initVars, selectedDate, secureKey, dbRet, lastSet>>
    /\ UNCHANGED <<clientVars, now, uiVars>>

\* The date header's chevrons (the right one stops at the current day) and
\* the effect on [selectedDate], which calls loadData.
selectDate(date) ==
    /\ AppReady
    /\ date \in Dates
    /\ date = selectedDate - 1 \/ date = selectedDate + 1
    /\ Len(waterLoads) < MaxWaterLoads
    /\ selectedDate' = date
    /\ waterLoads' = Append(waterLoads, date)
    /\ UNCHANGED <<dbVars, initVars, waterIntake, secureKey, dbRet, lastSet>>
    /\ UNCHANGED <<clientVars, now, uiVars>>

\* useFocusEffect: the screen comes into focus and calls loadData.
focusWater ==
    /\ AppReady
    /\ Len(waterLoads) < MaxWaterLoads
    /\ waterLoads' = Append(waterLoads, selectedDate)
    /\ UNCHANGED <<dbVars, initVars, selectedDate, waterIntake, secureKey, dbRet,
                   lastSet>>
    /\ UNCHANGED <<clientVars, now, uiVars>>

InitWater ==
    /\ InitializedDb
    /\ secureKey \in {"", "sk-1"}
    /\ dbRet = NoRet
    /\ lastSet = [p \in UserIds \X SettingKeys |-> Never]

NextWater ==
    \/ \E a \in WaterAmounts : addWater(a)
    \/ \E a \in WaterAmounts : removeWater(a)
    \/ loadData
    \/ \E d \in Dates : selectDate(d)
    \/ focusWater
    \/ clearAllData

SpecWater == InitWater /\ [][NextWater]_vars

---------------------------------------------------------------------------
(* The water ledger called directly (SpecLedger).                          *)

\* Deltas: additions and removals, a removal larger than any addition.
LedgerAmounts == {500, 300, 0 - 200, 0 - 750}

\* A call of DatabaseService.addWaterIntake.
addWaterIntakeCall(amount, date, userId) ==
    /\ AppReady
    /\ sqlite_sequence["water_intake"] < MaxRowId
    /\ addWaterIntake(amount, date, userId)
    /\ UNCHANGED <<tables, usersCols, users, settings, food_entries, initVars,
                   waterVars, secureKey, lastSet>>
    /\ UNCHANGED <<clientVars, now, uiVars>>

\* A call of DatabaseService.getWaterIntakeByDate.
getWaterIntakeByDateCall(date, userId) ==
    /\ AppReady
    /\ dbRet' = RetOf("getWaterIntakeByDate", <<date, userId>>,
                      getWaterIntakeByDate(date, userId), <<>>)
    /\ UNCHANGED <<dbVars, initVars, waterVars, secureKey, lastSet>>
    /\ UNCHANGED <<clientVars, now, uiVars>>

InitLedger ==
    /\ InitializedDb
    /\ secureKey = ""
    /\ dbRet = NoRet
    /\ lastSet = [p \in UserIds \X SettingKeys |-> Never]

NextLedger ==
    \/ \E a \in LedgerAmounts, d \in Dates, u \in UserIds : addWaterIntakeCall(a, d, u)
    \/ \E d \in Dates, u \in UserIds : getWaterIntakeByDateCall(d, u)
    \/ clearAllData

SpecLedger == InitLedger /\ [][NextLedger]_vars

---------------------------------------------------------------------------
(* Food entries: addFoodEntry and the aggregate queries.                   *)

\* What a caller passes to addFoodEntry, logged_date and user_id apart:
\* the manual-entry form leaves food_category undefined when it is blank.
Undefined == "<undefined>"
FoodInputs ==
    {[food_description |-> "pizza", quantity |-> 1, unit |-> "serving",
      meal_type |-> "lunch", food_category |-> "grains",
      calories |-> 250, protein |-> 12, carbs |-> 30, fat |-> 10],
     [food_description |-> "apple", quantity |-> 1, unit |-> "serving",
      meal_type |-> "lunch", food_category |-> Undefined,
      calories |-> 100, protein |-> 0, carbs |-> 25, fat |-> 0]}

\* The table after INSERT INTO food_entries (...): id from AUTOINCREMENT,
\* created_at from DEFAULT CURRENT_TIMESTAMP, entry.food_category || null.
InsertFoodEntry(rows, id, entry, date, userId) ==
    Append(rows,
        [id |-> id, user_id |-> userId,
         food_description |-> entry.food_description,
         quantity |-> entry.quantity, unit |-> entry.unit,
         meal_type |-> entry.meal_type,
         food_category |-> IF entry.food_category \in {Undefined, ""}
                           THEN Null ELSE entry.food_category,
         calories |-> entry.calories, protein |-> entry.protein,
         carbs |-> entry.carbs, fat |-> entry.fat,
         logged_date |-> date, created_at |-> now])

\* An INSERT on a connection that does not enforce foreign keys.
addFoodEntry_Unchecked(entry, date, userId) ==
    /\ food_entries' = InsertFoodEntry(food_entries,
                          sqlite_sequence["food_entries"] + 1,
                          entry, date, userId)
    /\ sqlite_sequence' = [sqlite_sequence EXCEPT !["food_entries"] = @ + 1]
    /\ dbRet' = Ret("addFoodEntry", TRUE, Null, Null,
                    sqlite_sequence["food_entries"] + 1)

\* addFoodEntry(entry): one INSERT; the FOREIGN KEY makes it raise for a
\* user that does not exist.
addFoodEntry(entry, date, userId) ==
    IF UserExists(userId)
    THEN /\ food_entries' = InsertFoodEntry(food_entries,
                               sqlite_sequence["food_entries"] + 1,
                               entry, date, userId)
         /\ sqlite_sequence' = [sqlite_sequence EXCEPT !["food_entries"] = @ + 1]
         /\ dbRet' = Ret("addFoodEntry", TRUE, Null, Null,
                         sqlite_sequence["food_entries"] + 1)
    ELSE /\ dbRet' = Ret("addFoodEntry", FALSE, Null, Null, 0)
         /\ UNCHANGED <<food_entries, sqlite_sequence>>

\* A call of DatabaseService.addFoodEntry.
addFoodEntryCall(entry, date, userId) ==
    /\ AppReady
    /\ sqlite_sequence["food_entries"] < MaxRowId
    /\ addFoodEntry(entry, date, userId)
    /\ UNCHANGED <<tables, usersCols, users, settings, water_intake, initVars,
                   waterVars, secureKey, lastSet>>
    /\ UNCHANGED <<clientVars, now, uiVars>>

\* SQL SUM(col) over rows: NULL when there is no row.
RECURSIVE SqlSum(_, _)
SqlSum(rows, col) ==
    IF rows = <<>> THEN SqlNull
    ELSE LET rest == SqlSum(Tail(rows), col)
         IN Head(rows)[col] + (IF rest = SqlNull THEN 0 ELSE rest)

\* COALESCE(x, d)
COALESCE(x, d) == IF x = SqlNull THEN d ELSE x

\* x || 0 for a number x
OrZero(x) == IF x = 0 THEN 0 ELSE x

\* The four aggregate columns of getDailyTotals and getWeeklyStats.
MacroSums(rows) ==
    [calories |-> COALESCE(SqlSum(rows, "calories"), 0),
     protein |-> COALESCE(SqlSum(rows, "protein"), 0),
     carbs |-> COALESCE(SqlSum(rows, "carbs"), 0),
     fat |-> COALESCE(SqlSum(rows, "fat"), 0)]

\* Daily totals whose water is summed over every date.
getDailyTotals_AnyDateWater(date, userId) ==
    LET nutritionResult ==
            MacroSums(SelectSeq(food_entries,
                LAMBDA r : r.user_id = userId /\ r.logged_date = date))
    IN [calories |-> OrZero(nutritionResult.calories),
        protein |-> OrZero(nutritionResult.protein),
        carbs |-> OrZero(nutritionResult.carbs),
        fat |-> OrZero(nutritionResult.fat),
        water |-> SumAmounts(SelectSeq(water_intake,
                                LAMBDA r : r.user_id = userId))]

\* getDailyTotals: the aggregate SELECT over food_entries WHERE user_id = ?
\* AND logged_date = ?, then getWaterIntakeByDate, then x || 0 per field.
getDailyTotals(date, userId) ==
    LET nutritionResult ==
            MacroSums(SelectSeq(food_entries,
                LAMBDA r : r.user_id = userId /\ r.logged_date = date))
    IN [calories |-> OrZero(nutritionResult.calories),
        protein |-> OrZero(nutritionResult.protein),
        carbs |-> OrZero(nutritionResult.carbs),
        fat |-> OrZero(nutritionResult.fat),
        water |-> getWaterIntakeByDate(date, userId)]

\* A call of DatabaseService.getDailyTotals.
getDailyTotalsCall(date, userId) ==
    /\ AppReady
    /\ dbRet' = RetOf("getDailyTotals", <<date, userId>>, 0,
                      <<getDailyTotals(date, userId)>>)
    /\ UNCHANGED <<dbVars, initVars, waterVars, secureKey, lastSet>>
    /\ UNCHANGED <<clientVars, now, uiVars>>

\* getDailyTotals up to its second await: the aggregate SELECT over
\* food_entries has returned.  food0 and water0 are history: the two tables
\* as they were at that moment.
getDailyTotalsBegin(date, userId) ==
    /\ AppReady
    /\ dailyCall.pc = "idle"
    /\ dailyCall' =
          [pc |-> "water", date |-> date, userId |-> userId,
           sums |-> MacroSums(SelectSeq(food_entries,
                       LAMBDA r : r.user_id = userId /\ r.logged_date = date)),
           food0 |-> food_entries, water0 |-> water_intake]
    /\ UNCHANGED <<dbVars, initVars, waterVars, clientVars, secureKey, dbRet,
                   lastSet, now, screen>>

\* getDailyTotals from its second await on: getWaterIntakeByDate runs now,
\* and the object is built from the earlier sums and this water total.
getDailyTotalsEnd ==
    /\ dailyCall.pc = "water"
    /\ dbRet' = RetOf("getDailyTotals", <<dailyCall.date, dailyCall.userId>>, 0,
                      <<[calories |-> OrZero(dailyCall.sums.calories),
                         protein |-> OrZero(dailyCall.sums.protein),
                         carbs |-> OrZero(dailyCall.sums.carbs),
                         fat |-> OrZero(dailyCall.sums.fat),
                         water |-> getWaterIntakeByDate(dailyCall.date,
                                                        dailyCall.userId)]>>)
    /\ dailyCall' = NoDailyCall
    /\ UNCHANGED <<dbVars, initVars, waterVars, clientVars, secureKey, lastSet,
                   now, screen>>

\* No write has happened yet since the running getDailyTotals began.
NoWriteSinceBegin ==
    \/ dailyCall.pc = "idle"
    \/ /\ food_entries = dailyCall.food0
       /\ water_intake = dailyCall.water0

\* The groups of GROUP BY logged_date ORDER BY logged_date from date d on.
RECURSIVE WeeklyGroups(_, _)
WeeklyGroups(rows, d) ==
    IF d > Today THEN <<>>
    ELSE LET group == SelectSeq(rows, LAMBDA r : r.logged_date = d)
         IN (IF group = <<>> THEN <<>>
             ELSE <<[date |-> d] @@ MacroSums(group)>>)
            \o WeeklyGroups(rows, d + 1)

\* Weekly statistics whose range leaves out its last day.
getWeeklyStats_EndExcluded(start, end, userId) ==
    WeeklyGroups(SelectSeq(food_entries,
                    LAMBDA r : /\ r.user_id = userId
                               /\ start <= r.logged_date /\ r.logged_date < end),
                 1)

\* getWeeklyStats: WHERE user_id = ? AND logged_date BETWEEN ? AND ?
\* GROUP BY logged_date ORDER BY logged_date.
getWeeklyStats(start, end, userId) ==
    WeeklyGroups(SelectSeq(food_entries,
                    LAMBDA r : /\ r.user_id = userId
                               /\ start <= r.logged_date /\ r.logged_date <= end),
                 1)

\* A call of DatabaseService.getWeeklyStats.
getWeeklyStatsCall(start, end, userId) ==
    /\ AppReady
    /\ dbRet' = RetOf("getWeeklyStats", <<start, end, userId>>, 0,
                      getWeeklyStats(start, end, userId))
    /\ UNCHANGED <<dbVars, initVars, waterVars, secureKey, lastSet>>
    /\ UNCHANGED <<clientVars, now, uiVars>>

\* A count of entries instead of dates.
getConsistencyDays_CountRows(start, end, userId) ==
    Len(SelectSeq(food_entries,
            LAMBDA r : /\ r.user_id = userId
                       /\ start <= r.logged_date /\ r.logged_date <= end))

\* getConsistencyDays: SELECT COUNT(DISTINCT logged_date) ... BETWEEN ? AND ?,
\* then result?.count || 0.
getConsistencyDays(start, end, userId) ==
    LET rows == SelectSeq(food_entries,
                    LAMBDA r : /\ r.user_id = userId
                               /\ start <= r.logged_date /\ r.logged_date <= end)
    IN OrZero(Cardinality({rows[i].logged_date : i \in 1..Len(rows)}))

\* A call of DatabaseService.getConsistencyDays.
getConsistencyDaysCall(start, end, userId) ==
    /\ AppReady
    /\ dbRet' = RetOf("getConsistencyDays", <<start, end, userId>>,
                      getConsistencyDays(start, end, userId), <<>>)
    /\ UNCHANGED <<dbVars, initVars, waterVars, secureKey, lastSet>>
    /\ UNCHANGED <<clientVars, now, uiVars>>

---------------------------------------------------------------------------
(* Food entries: updateFoodEntry, deleteFoodEntry, getFoodEntriesByDate.   *)

FoodColumns ==
    {"id", "user_id", "food_description", "quantity", "unit", "meal_type",
     "food_category", "calories", "protein", "carbs", "fat", "logged_date",
     "created_at"}

\* Partial<FoodEntry> objects: a field may be absent, or present with the
\* value undefined; the empty object; objects naming id and created_at; a
\* user that does not exist.
NoUpdates == [c \in {} |-> JUndefined]
UpdateInputs ==
    {NoUpdates,
     [calories |-> JNum(300), protein |-> JUndefined],
     [food_category |-> JUndefined, fat |-> JUndefined],
     [id |-> JNum(9), created_at |-> JNum(0)],
     [id |-> JNum(9), created_at |-> JNum(0), food_description |-> JStr("salad")],
     [logged_date |-> JNum(1)],
     [user_id |-> JNum(2)]}

\* The SQL value bound for a JavaScript value.
SqlValue(v) == IF v.ty = "number" THEN v.n ELSE v.s

\* Object.entries(updates).filter(...): the keys that go into the SET clause.
UpdateEntries(updates) ==
    {key \in DOMAIN updates :
        key # "id" /\ key # "created_at" /\ updates[key] # JUndefined}

\* The row after SET key = ? for each of the keys.
SetColumns(row, updates, keys) ==
    LET New(c) == IF c \in keys THEN SqlValue(updates[c]) ELSE row[c]
    IN [id |-> New("id"), user_id |-> New("user_id"),
        food_description |-> New("food_description"),
        quantity |-> New("quantity"), unit |-> New("unit"),
        meal_type |-> New("meal_type"), food_category |-> New("food_category"),
        calories |-> New("calories"), protein |-> New("protein"),
        carbs |-> New("carbs"), fat |-> New("fat"),
        logged_date |-> New("logged_date"), created_at |-> New("created_at")]

\* An update that does not take id and created_at out of the SET clause.
updateFoodEntry_WritesId(id, updates) ==
    LET entries == {key \in DOMAIN updates : updates[key] # JUndefined}
    IN /\ food_entries' =
             [i \in 1..Len(food_entries) |->
                 IF food_entries[i].id = id
                 THEN SetColumns(food_entries[i], updates, entries)
                 ELSE food_entries[i]]
       /\ dbRet' = Ret("updateFoodEntry", TRUE, Null, Null, id)

\* updateFoodEntry(id, updates): nothing is run when no entry is left;
\* otherwise UPDATE food_entries SET ... WHERE id = ?, which raises when a
\* row would get a user_id that is in no users row.
updateFoodEntry(id, updates) ==
    LET entries == UpdateEntries(updates)
        hit == \E i \in 1..Len(food_entries) : food_entries[i].id = id
    IN IF entries = {}
       THEN /\ dbRet' = Ret("updateFoodEntry", TRUE, Null, Null, id)
            /\ UNCHANGED food_entries
       ELSE IF hit /\ "user_id" \in entries /\ ~UserExists(SqlValue(updates.user_id))
       THEN /\ dbRet' = Ret("updateFoodEntry", FALSE, Null, Null, id)
            /\ UNCHANGED food_entries
       ELSE /\ food_entries' =
                  [i \in 1..Len(food_entries) |->
                      IF food_entries[i].id = id
                      THEN SetColumns(food_entries[i], updates, entries)
                      ELSE food_entries[i]]
            /\ dbRet' = Ret("updateFoodEntry", TRUE, Null, Null, id)

\* A call of DatabaseService.updateFoodEntry.
updateFoodEntryCall(id, updates) ==
    /\ AppReady
    /\ updateFoodEntry(id, updates)
    /\ UNCHANGED <<tables, usersCols, users, settings, water_intake,
                   sqlite_sequence, initVars, waterVars, secureKey, lastSet>>
    /\ UNCHANGED <<clientVars, now, uiVars>>

\* deleteFoodEntry(id): DELETE FROM food_entries WHERE id = ?
deleteFoodEntry(id) ==
    /\ AppReady
    /\ food_entries' = SelectSeq(food_entries, LAMBDA r : r.id # id)
    /\ dbRet' = Ret("deleteFoodEntry", TRUE, Null, Null, id)
    /\ UNCHANGED <<tables, usersCols, users, settings, water_intake,
                   sqlite_sequence, initVars, waterVars, secureKey, lastSet>>
    /\ UNCHANGED <<clientVars, now, uiVars>>

\* Editing and deleting entries of the current day (SpecEdit).
InitEdit == InitLedger

NextEdit ==
    \/ \E e \in FoodInputs :
          /\ sqlite_sequence["food_entries"] < MaxFoodRows
          /\ addFoodEntryCall(e, Today, DefaultUserId)
    \/ \E id \in 1..MaxRowId, u \in UpdateInputs : updateFoodEntryCall(id, u)
    \/ \E id \in 1..MaxRowId : deleteFoodEntry(id)

SpecEdit == InitEdit /\ [][NextEdit]_vars

---------------------------------------------------------------------------
(* ManualFoodEntryScreen: the form and its Save button (SpecManual).       *)

\* The text of a numeric field, as a sequence of characters.
DigitChars == <<"0", "1", "2", "3", "4", "5", "6", "7", "8", "9">>
IsDigit(c) == \E i \in 1..Len(DigitChars) : DigitChars[i] = c
DigitValue(c) == (CHOOSE i \in 1..Len(DigitChars) : DigitChars[i] = c) - 1

\* The number NaN.
NaN == [ty |-> "number", s |-> "NaN", n |-> 0]

\* The value of the run of digits of toks that starts at index i, after acc.
RECURSIVE DigitRun(_, _, _)
DigitRun(toks, i, acc) ==
    IF i <= Len(toks) /\ IsDigit(toks[i])
    THEN DigitRun(toks, i + 1, 10 * acc + DigitValue(toks[i]))
    ELSE acc

\* The index after the run of digits of toks that starts at index i.
RECURSIVE DigitRunEnd(_, _)
DigitRunEnd(toks, i) ==
    IF i <= Len(toks) /\ IsDigit(toks[i]) THEN DigitRunEnd(toks, i + 1) ELSE i

\* parseFloat(text) for texts without a fraction or an exponent: leading
\* white space, an optional sign, the longest run of digits; NaN when
\* there is no digit there.  What follows the digits is ignored.
parseFloat(toks) ==
    LET i == SkipWs(toks, 1)
        signed == i <= Len(toks) /\ toks[i] \in {"-", "+"}
        j == IF signed THEN i + 1 ELSE i
    IN IF j > Len(toks) \/ ~IsDigit(toks[j]) THEN NaN
       ELSE IF signed /\ toks[i] = "-" THEN JNum(0 - DigitRun(toks, j, 0))
       ELSE JNum(DigitRun(toks, j, 0))

\* Number(text): 0 for an empty or blank text, NaN unless the whole trimmed
\* text is a numeral.
Number(toks) ==
    LET t == trim(toks)
        signed == t # <<>> /\ t[1] \in {"-", "+"}
        j == IF signed THEN 2 ELSE 1
    IN IF t = <<>> THEN JNum(0)
       ELSE IF j <= Len(t) /\ DigitRunEnd(t, j) = Len(t) + 1 THEN parseFloat(t)
       ELSE NaN

\* v || d for a number v: NaN and 0 are falsy.
NumberOr(v, d) == IF v = NaN \/ v.n = 0 THEN d ELSE v.n

\* What the user may have typed into the form.
ManualForms ==
    LET Form(desc, cal, pro, carb, fat, cat) ==
          [foodDescription |-> desc, quantity |-> <<"1">>, unit |-> "serving",
           selectedMeal |-> "lunch", category |-> cat, calories |-> cal,
           protein |-> pro, carbs |-> carb, fat |-> fat]
    IN {Form("pizza", <<"2", "5", "0">>, <<"1", "2">>, <<"3", "0">>,
             <<"1", "0">>, "grains"),
        Form("", <<"2", "5", "0">>, <<>>, <<>>, <<>>, ""),
        Form("apple", <<>>, <<>>, <<>>, <<>>, ""),
        Form("apple", <<"a">>, <<>>, <<>>, <<>>, ""),
        Form("apple", <<"1", "2", "a">>, <<>>, <<>>, <<>>, ""),
        Form("apple", <<"-", "1", "0", "0">>, <<>>, <<"a">>, <<>>, ""),
        Form("apple", <<"1", "0", "0">>, <<"-", "5">>, <<"-", "5">>,
             <<"-", "5">>, "")}

\* The two checks at the top of saveFoodEntry: a description, and calories
\* that are not empty and not NaN under Number().
FormAccepted(form) ==
    /\ form.foodDescription # ""
    /\ form.calories # <<>>
    /\ Number(form.calories) # NaN

\* saveFoodEntry, add mode: the checks, then addFoodEntry with the parsed
\* fields for user 1 and today's date.
saveFoodEntryAdd(form) ==
    /\ AppReady
    /\ IF FormAccepted(form)
       THEN addFoodEntry(
               [food_description |-> form.foodDescription,
                quantity |-> NumberOr(parseFloat(form.quantity), 1),
                unit |-> form.unit, meal_type |-> form.selectedMeal,
                food_category |-> IF form.category = "" THEN Undefined
                                  ELSE form.category,
                calories |-> NumberOr(parseFloat(form.calories), 0),
                protein |-> NumberOr(parseFloat(form.protein), 0),
                carbs |-> NumberOr(parseFloat(form.carbs), 0),
                fat |-> NumberOr(parseFloat(form.fat), 0)],
               Today, DefaultUserId)
       ELSE /\ dbRet' = Ret("saveFoodEntry", FALSE, Null, Null, 0)
            /\ UNCHANGED <<food_entries, sqlite_sequence>>
    /\ UNCHANGED <<tables, usersCols, users, settings, water_intake, initVars,
                   waterVars, secureKey, lastSet>>
    /\ UNCHANGED <<clientVars, now, uiVars>>

\* saveFoodEntry, edit mode: the checks, then updateFoodEntry(editId, ...)
\* with the parsed fields.
saveFoodEntryEdit(editId, form) ==
    /\ AppReady
    /\ IF FormAccepted(form)
       THEN updateFoodEntry(editId,
               [food_description |-> JStr(form.foodDescription),
                quantity |-> JNum(NumberOr(parseFloat(form.quantity), 1)),
                unit |-> JStr(form.unit), meal_type |-> JStr(form.selectedMeal),
                food_category |-> IF form.category = "" THEN JUndefined
                                  ELSE JStr(form.category),
                calories |-> JNum(NumberOr(parseFloat(form.calories), 0)),
                protein |-> JNum(NumberOr(parseFloat(form.protein), 0)),
                carbs |-> JNum(NumberOr(parseFloat(form.carbs), 0)),
                fat |-> JNum(NumberOr(parseFloat(form.fat), 0))])
       ELSE /\ dbRet' = Ret("saveFoodEntry", FALSE, Null, Null, 0)
            /\ UNCHANGED food_entries
    /\ UNCHANGED <<tables, usersCols, users, settings, water_intake,
                   sqlite_sequence, initVars, waterVars, secureKey, lastSet>>
    /\ UNCHANGED <<clientVars, now, uiVars>>

InitManual == InitLedger

NextManual ==
    \/ \E form \in ManualForms :
          /\ sqlite_sequence["food_entries"] < MaxFoodRows
          /\ saveFoodEntryAdd(form)
    \/ \E id \in 1..MaxFoodRows, form \in ManualForms : saveFoodEntryEdit(id, form)
    \/ \E id \in 1..MaxFoodRows : deleteFoodEntry(id)

SpecManual == InitManual /\ [][NextManual]_vars

\* Rows of the three user-owned tables written for any user id
\* (SpecIntegrity).
IntegrityUpdates == {[user_id |-> JNum(2)], [calories |-> JNum(300)]}

InitIntegrity == InitLedger

NextIntegrity ==
    \/ \E e \in FoodInputs, u \in UserIds :
          /\ sqlite_sequence["food_entries"] < MaxFoodRows
          /\ addFoodEntryCall(e, Today, u)
    \/ \E u \in UserIds :
          /\ sqlite_sequence["water_intake"] < MaxFoodRows
          /\ addWaterIntakeCall(500, Today, u)
    \/ \E u \in UserIds :
          /\ sqlite_sequence["settings"] < MaxFoodRows
          /\ setSetting("ai_model", "m1", u)
    \/ \E id \in 1..MaxFoodRows, u \in IntegrityUpdates :
          updateFoodEntryCall(id, u)
    \/ \E id \in 1..MaxFoodRows : deleteFoodEntry(id)
    \/ clearAllData

SpecIntegrity == InitIntegrity /\ [][NextIntegrity]_vars

\* The results SELECT * ... WHERE user_id = ? AND logged_date = ? ORDER BY
\* created_at DESC may give: created_at has a resolution of one second, and
\* SQL leaves the order of rows with equal created_at open.
getFoodEntriesByDate(date, userId) ==
    LET rows == SelectSeq(food_entries,
                    LAMBDA r : r.user_id = userId /\ r.logged_date = date)
        n == Len(rows)
        orders == {f \in [1..n -> 1..n] :
                      /\ \A i \in 1..n, j \in 1..n : i # j => f[i] # f[j]
                      /\ \A i \in 1..n, j \in 1..n :
                            i < j => rows[f[i]].created_at >= rows[f[j]].created_at}
    IN {[i \in 1..n |-> rows[f[i]]] : f \in orders}

\* A call of DatabaseService.getFoodEntriesByDate.
getFoodEntriesByDateCall(date, userId) ==
    /\ AppReady
    /\ \E result \in getFoodEntriesByDate(date, userId) :
          dbRet' = RetOf("getFoodEntriesByDate", <<date, userId>>, 0, result)
    /\ UNCHANGED <<dbVars, initVars, waterVars, secureKey, lastSet>>
    /\ UNCHANGED <<clientVars, now, uiVars>>

\* A second passes on the device clock.
tick ==
    /\ now < MaxNow
    /\ now' = now + 1
    /\ UNCHANGED <<dbVars, initVars, waterVars, clientVars, secureKey, dbRet,
                   lastSet, uiVars>>

\* Logging entries over time and listing a day (SpecOrder).
InitOrder == InitLedger

NextOrder ==
    \/ \E e \in FoodInputs, d \in Dates :
          /\ sqlite_sequence["food_entries"] < MaxFoodRows
          /\ addFoodEntryCall(e, d, DefaultUserId)
    \/ tick
    \/ \E d \in Dates, u \in UserIds : getFoodEntriesByDateCall(d, u)

SpecOrder == InitOrder /\ [][NextOrder]_vars

\* The range queries over the food log (SpecStats).
InitStats == InitLedger

NextStats ==
    \/ \E e \in FoodInputs, d \in Dates, u \in UserIds : addFoodEntryCall(e, d, u)
    \/ \E a \in Dates, b \in Dates, u \in UserIds : getWeeklyStatsCall(a, b, u)
    \/ \E a \in Dates, b \in Dates, u \in UserIds : getConsistencyDaysCall(a, b, u)
    \/ clearAllData

SpecStats == InitStats /\ [][NextStats]_vars

\* The daily totals over food and water (SpecDaily).
DailyWaterAmounts == {500, 0 - 750}
InitDaily == InitLedger

NextDaily ==
    \/ \E e \in FoodInputs, d \in Dates :
          /\ Len(food_entries) + Len(water_intake) < MaxDailyRows
          /\ addFoodEntryCall(e, d, DefaultUserId)
    \/ \E a \in DailyWaterAmounts, d \in Dates :
          /\ Len(food_entries) + Len(water_intake) < MaxDailyRows
          /\ addWaterIntakeCall(a, d, DefaultUserId)
    \/ \E d \in Dates, u \in UserIds : getDailyTotalsCall(d, u)
    \/ clearAllData

SpecDaily == InitDaily /\ [][NextDaily]_vars

\* getDailyTotals with other handlers' writes between its two queries, at
\* most one write per call (SpecSnapshot).
InitSnapshot == InitLedger

NextSnapshot ==
    \/ \E d \in Dates : getDailyTotalsBegin(d, DefaultUserId)
    \/ getDailyTotalsEnd
    \/ \E e \in FoodInputs :
          /\ NoWriteSinceBegin
          /\ Len(food_entries) + Len(water_intake) < MaxDailyRows
          /\ addFoodEntryCall(e, Today, DefaultUserId)
    \/ \E a \in DailyWaterAmounts :
          /\ NoWriteSinceBegin
          /\ Len(food_entries) + Len(water_intake) < MaxDailyRows
          /\ addWaterIntakeCall(a, Today, DefaultUserId)
    \/ /\ NoWriteSinceBegin
       /\ clearAllData

SpecSnapshot == InitSnapshot /\ [][NextSnapshot]_vars

---------------------------------------------------------------------------
(* FoodAnalysisScreen and the Settings screen's AI configuration.          *)

MaxCaptures == 2

\* What the screen's state leaves alone.
ScreenStep ==
    UNCHANGED <<dbVars, initVars, waterVars, clientVars, secureKey, dbRet,
                lastSet, now, dailyCall>>

\* The screen mounts: useEffect runs loadApiKey once, which hands the stored
\* key, when there is one, to the screen's own OpenRouterService.  Nothing
\* reads the 'ai_model' setting here.
mountAnalysis ==
    /\ AppReady
    /\ ~screen.mounted
    /\ screen' = [screen EXCEPT !.mounted = TRUE,
                                !.config.apiKey = IF secureKey # "" THEN secureKey
                                                  ELSE @]
    /\ ScreenStep

\* SettingsScreen.saveApiKey with a key that is not blank: SecureStore, then
\* the Settings screen's own service.
saveApiKey(key) ==
    /\ AppReady
    /\ screen.alerts = 0
    /\ key # ""
    /\ secureKey' = key
    /\ config' = [config EXCEPT !.apiKey = key]
    /\ UNCHANGED <<pending, callRequests, outcome, prevFailure, lastReply>>
    /\ UNCHANGED <<dbVars, initVars, waterVars, dbRet, lastSet, now, uiVars>>

\* SettingsScreen.saveUserSettings with the goals left at 2000 / 2500:
\* updateUserGoals and setSetting('ai_model', selectedModel), then setModel
\* on the Settings screen's own service.
saveUserSettings(selectedModel) ==
    /\ AppReady
    /\ screen.alerts = 0
    /\ users' = UpdateUsersWhereId(DefaultUserId,
                   [i \in 1..Len(users) |->
                       [users[i] EXCEPT !.calorie_goal = 2000,
                                        !.water_goal = 2500]])
    /\ settings' = InsertOrReplaceSetting(settings,
                      sqlite_sequence["settings"] + 1, "ai_model",
                      selectedModel, DefaultUserId)
    /\ sqlite_sequence' = [sqlite_sequence EXCEPT !["settings"] = @ + 1]
    /\ lastSet' = [lastSet EXCEPT ![<<DefaultUserId, "ai_model">>] = selectedModel]
    /\ config' = [config EXCEPT !.model = selectedModel]
    /\ dbRet' = Ret("setSetting", TRUE, "ai_model", selectedModel, DefaultUserId)
    /\ UNCHANGED <<pending, callRequests, outcome, prevFailure, lastReply>>
    /\ UNCHANGED <<tables, usersCols, water_intake, food_entries, initVars,
                   waterVars, secureKey, now, uiVars>>

\* takePicture / pickImage up to the await of the image: the buttons are
\* there while step is 'camera' and no alert is up; checkApiKey reads
\* SecureStore and returns early when no key is stored.
captureStart ==
    /\ AppReady
    /\ screen.mounted
    /\ screen.alerts = 0
    /\ screen.step = "camera"
    /\ Len(screen.runs) < MaxCaptures
    /\ secureKey # ""
    /\ screen' = [screen EXCEPT
                    !.runs = Append(@, [pc |-> "picture", checkedKey |-> secureKey])]
    /\ ScreenStep

\* The image did not come with base64 data: an alert, no analysis.
pictureFailed(i) ==
    /\ i \in 1..Len(screen.runs)
    /\ screen.runs[i].pc = "picture"
    /\ screen' = [screen EXCEPT !.runs = RemoveAt(@, i)]
    /\ ScreenStep

\* The catch block of analyzeFood: the 'Analysis Failed' alert.  step and
\* analysisResult stay as they are.
AnalysisFailed(i, why) ==
    [screen EXCEPT !.runs = RemoveAt(@, i), !.alerts = @ + 1,
                   !.fresh = FALSE, !.lastFailure = why]

\* The image arrived: analyzeFood(base64) sets step 'analyzing' and calls
\* testConnection, which returns false at once for a service without a key.
pictureDone(i) ==
    /\ i \in 1..Len(screen.runs)
    /\ screen.runs[i].pc = "picture"
    /\ IF screen.config.apiKey = ""
       THEN screen' = [AnalysisFailed(i, "missing key") EXCEPT !.step = "analyzing"]
       ELSE screen' = [screen EXCEPT !.step = "analyzing", !.runs[i].pc = "test"]
    /\ ScreenStep

\* The replies the screen's two requests are tried with.
ScreenConnectionReplies ==
    {Reply("ok", 200, "", "missing", <<>>, EmptyObject),
     Reply("http", 401, "", "missing", <<>>, EmptyObject)}
ScreenAnalysisReplies ==
    {Reply("ok", 200, "", "content", <<"LB", "M", "RB">>, BaseRecord),
     Reply("ok", 200, "", "content", <<"LB", "M", "RB">>,
           [BaseRecord EXCEPT !.calories = JStr("250")]),
     Reply("http", 429, "", "missing", <<>>, EmptyObject)}

\* testConnection resolved: false throws into the catch block, true goes on
\* to openRouterService.analyzeFood, whose request carries the model and
\* the key of the screen's service.
testDone(i, reply) ==
    /\ i \in 1..Len(screen.runs)
    /\ screen.runs[i].pc = "test"
    /\ IF reply.kind = "ok" /\ reply.status = 200
       THEN screen' = [screen EXCEPT
                         !.runs[i].pc = "analyze",
                         !.lastRequest = [op |-> "analyzeFood",
                                          model |-> screen.config.model,
                                          key |-> screen.config.apiKey]]
       ELSE screen' = AnalysisFailed(i, "no connection")
    /\ ScreenStep

\* openRouterService.analyzeFood settled: a validated record is stored and
\* shown for review, an error goes to the catch block.
analyzeDone(i, reply) ==
    /\ i \in 1..Len(screen.runs)
    /\ screen.runs[i].pc = "analyze"
    /\ LET r == analyzeReply(reply)
       IN IF r.kind = "threw"
          THEN screen' = AnalysisFailed(i, "analysis")
          ELSE screen' = [screen EXCEPT !.runs = RemoveAt(@, i),
                                        !.analysisResult = r.value,
                                        !.hasResult = TRUE,
                                        !.step = "review",
                                        !.fresh = TRUE]
    /\ ScreenStep

\* The alert's Retry button: setStep('camera').
alertRetry ==
    /\ screen.alerts > 0
    /\ screen' = [screen EXCEPT !.alerts = @ - 1, !.step = "camera"]
    /\ ScreenStep

\* The alert's Cancel button: router.back(); the tab keeps its state.
alertCancel ==
    /\ screen.alerts > 0
    /\ screen' = [screen EXCEPT !.alerts = @ - 1]
    /\ ScreenStep

\* Save Entry, up to the await of addFoodEntry: the button is there in step
\* 'review' with a result, and is disabled while a save is running.
saveStart ==
    /\ AppReady
    /\ screen.alerts = 0
    /\ screen.step = "review"
    /\ screen.hasResult
    /\ ~screen.saving
    /\ screen' = [screen EXCEPT !.step = "saving", !.saving = TRUE]
    /\ ScreenStep

\* The entry saveFoodEntry builds from the result, for one serving.
ResultEntry(result) ==
    [food_description |-> result.food_description.s, quantity |-> 1,
     unit |-> "serving", meal_type |-> "lunch",
     food_category |-> result.food_category.s,
     calories |-> result.calories.n, protein |-> result.protein.n,
     carbs |-> result.carbs.n, fat |-> result.fat.n]

\* addFoodEntry settled: setStep('review').
saveDone ==
    /\ screen.saving
    /\ addFoodEntry(ResultEntry(screen.analysisResult), Today, DefaultUserId)
    /\ screen' = [screen EXCEPT !.step = "review", !.saving = FALSE]
    /\ UNCHANGED <<tables, usersCols, users, settings, water_intake, initVars,
                   waterVars, clientVars, secureKey, lastSet, now, dailyCall>>

\* Retake: resetAnalysis.
resetAnalysis ==
    /\ screen.alerts = 0
    /\ screen.step = "review"
    /\ screen.hasResult
    /\ ~screen.saving
    /\ screen' = [screen EXCEPT !.step = "camera", !.hasResult = FALSE,
                                !.analysisResult = EmptyObject,
                                !.fresh = FALSE]
    /\ ScreenStep

\* The capture handlers, whatever the replies.
analysisRuns ==
    \/ captureStart
    \/ \E i \in 1..MaxCaptures : pictureDone(i)
    \/ \E i \in 1..MaxCaptures : pictureFailed(i)
    \/ \E i \in 1..MaxCaptures, r \in ScreenConnectionReplies : testDone(i, r)
    \/ \E i \in 1..MaxCaptures, r \in ScreenAnalysisReplies : analyzeDone(i, r)
    \/ alertRetry
    \/ alertCancel

\* The key and the model set in Settings, and what the analysis screen then
\* sends (SpecScreenConfig).
InitScreenConfig ==
    /\ InitializedDb
    /\ secureKey \in {"", "sk-1"}
    /\ dbRet = NoRet
    /\ lastSet = [p \in UserIds \X SettingKeys |-> Never]

NextScreenConfig ==
    \/ mountAnalysis
    \/ \E k \in {"sk-1", "sk-2"} : saveApiKey(k)
    \/ \E m \in Models :
          /\ sqlite_sequence["settings"] < MaxFoodRows
          /\ saveUserSettings(m)
    \/ analysisRuns

SpecScreenConfig == InitScreenConfig /\ [][NextScreenConfig]_vars

\* Capture, review and save with a key in place (SpecAnalysis).
InitAnalysis ==
    /\ InitializedDb
    /\ secureKey = "sk-1"
    /\ dbRet = NoRet
    /\ lastSet = [p \in UserIds \X SettingKeys |-> Never]

NextAnalysis ==
    \/ mountAnalysis
    \/ analysisRuns
    \/ /\ sqlite_sequence["food_entries"] < MaxFoodRows
       /\ saveStart
    \/ saveDone
    \/ resetAnalysis

SpecAnalysis == InitAnalysis /\ [][NextAnalysis]_vars

---------------------------------------------------------------------------
(* The service and the replies it gets (SpecClient).                       *)

InitClient ==
    /\ InitializedDb
    /\ secureKey = ""
    /\ dbRet = NoRet
    /\ lastSet = [p \in UserIds \X SettingKeys |-> Never]

NextClient ==
    \/ \E k \in ApiKeys : setApiKey(k)
    \/ \E m \in Models : setModel(m)
    \/ analyzeFood
    \/ \E r \in AnalysisReplies : analyzeFoodResume(r)
    \/ generateNutritionTip
    \/ \E r \in TipReplies : generateNutritionTipResume(r)
    \/ testConnection
    \/ \E r \in ConnectionReplies : testConnectionResume(r)
    \/ getAvailableModels
    \/ \E r \in ModelsReplies : getAvailableModelsResume(r)

SpecClient == InitClient /\ [][NextClient]_vars

---------------------------------------------------------------------------
(* Claims about the settings store (SpecSettings).                         *)

\* C1: the settings table holds at most one row for each (user_id,
\* setting_key) pair.
C1_OneRowPerUserKey ==
    \A i, j \in 1..Len(settings) :
        (/\ settings[i].user_id = settings[j].user_id
         /\ settings[i].setting_key = settings[j].setting_key) => i = j

\* C2: getSetting(key, user) returns the value of the most recent
\* setSetting(key, _, user), and null only when there has been none.
C2_ReadYourWrite ==
    dbRet.op = "getSetting" =>
        LET latest == lastSet[<<dbRet.num, dbRet.key>>]
        IN IF latest = Never THEN dbRet.str = Null ELSE dbRet.str = latest

---------------------------------------------------------------------------
(* Claims about initializeDatabase (SpecLaunch).                           *)

\* What getUser's caller can tell apart in a row: a column that is missing
\* and a column that is NULL both read as "not set", and setup_completed is
\* used as a truth value.
Observed(row) ==
    [id |-> row.id, name |-> row.name,
     calorie_goal |-> row.calorie_goal, water_goal |-> row.water_goal,
     weight |-> IF row.weight = NoCol THEN SqlNull ELSE row.weight,
     age |-> IF row.age = NoCol THEN SqlNull ELSE row.age,
     activity_level |-> IF row.activity_level = NoColText THEN Null
                        ELSE row.activity_level,
     weight_goal |-> IF row.weight_goal = NoColText THEN Null ELSE row.weight_goal,
     setup_completed |-> row.setup_completed = 1]

\* A step of initializeDatabase leaves every existing users row as it was.
InitKeepsUsers ==
    InitRunning =>
        /\ Len(users') >= Len(users)
        /\ \A i \in 1..Len(users) : Observed(users'[i]) = Observed(users[i])

\* The row initializeDatabase creates is id 1 with goals 2000 / 2500 and
\* setup_completed false.
InitCreatesDefaults ==
    (InitRunning /\ Len(users') > Len(users)) =>
        /\ Len(users') = Len(users) + 1
        /\ Observed(users'[Len(users')]) =
             [Observed(DefaultUser) EXCEPT !.calorie_goal = 2000,
                                           !.water_goal = 2500,
                                           !.setup_completed = FALSE]

\* C8: after any number of initialize() calls, interleaved with the other
\* store operations, exactly one users row with id = 1 exists; the row
\* initialize() creates has calorie_goal 2000, water_goal 2500 and
\* setup_completed false; initialize() does not change an existing user.
C8_InitializeGuaranteesDefaultUser ==
    /\ []((initCalls >= 1 /\ ~InitRunning) => userExistsCount = 1)
    /\ [][InitCreatesDefaults]_vars
    /\ [][InitKeepsUsers]_vars

\* The part of C8 that holds of every initialize() call that returns.
InitializeReturnedKeepsDefaultUser ==
    /\ [](initPc = "done" => userExistsCount = 1)
    /\ [][InitCreatesDefaults]_vars
    /\ [][InitKeepsUsers]_vars

\* C9: whatever migration step fails, whatever columns the users table had
\* and whether or not the id = 1 row exists, initialize() does not raise.
C9_InitializeNeverRaises == initPc # "failed"

---------------------------------------------------------------------------
(* Claims about the water ledger (SpecWater).                              *)

IsPrefix(s, t) == Len(s) <= Len(t) /\ SubSeq(t, 1, Len(s)) = s

\* A removal of amount a appends one row with amount -a for the day shown
\* and the default user.
RemovalIsInsert ==
    \A a \in WaterAmounts :
        removeWater(a) =>
            /\ Len(water_intake') = Len(water_intake) + 1
            /\ water_intake'[Len(water_intake')].amount = -a
            /\ water_intake'[Len(water_intake')].logged_date = selectedDate
            /\ water_intake'[Len(water_intake')].user_id = DefaultUserId

\* C10 (as claimed): no existing water_intake row is ever mutated or
\* deleted, and a removal of a is a newly inserted row with amount -a.
C10_AppendOnlyLedger ==
    [][IsPrefix(water_intake, water_intake') /\ RemovalIsInsert]_vars

\* C10 (amended): rows are never mutated; they are deleted only by the
\* Settings screen's Clear All Data, which deletes all of them; a removal of
\* a is a newly inserted row with amount -a for the same date and user.
C10_AppendOnlyUntilCleared ==
    [][\/ clearAllData /\ water_intake' = <<>>
       \/ IsPrefix(water_intake, water_intake') /\ RemovalIsInsert]_vars

\* A removal has been recorded after an addition.
C10_Witness ==
    /\ Len(water_intake) >= 2
    /\ water_intake[1].amount > 0
    /\ water_intake[Len(water_intake)].amount < 0
    /\ dbRet.op = "addWaterIntake"

---------------------------------------------------------------------------
(* Claims about the OpenRouter service (SpecClient).                       *)

\* The record the claim C3 describes, field by field.
IsCompleteRecord(rec) ==
    /\ rec.food_description.ty = "string"
    /\ rec.estimated_serving.ty = "string"
    /\ \A f \in {"calories", "protein", "carbs", "fat"} : rec[f].ty = "number"
    /\ rec.food_category \in {JStr(c) : c \in
           {"vegetables", "fruits", "grains", "protein", "dairy"}}
    /\ rec.confidence \in {JStr(c) : c \in {"high", "medium", "low"}}

\* C3: analyzeFood never returns a partial record: whenever it returns,
\* the record has food_description and estimated_serving as strings, the
\* four nutrient values as numbers, food_category among the five groups and
\* confidence among high, medium, low; and a finished call whose reply
\* lacked food_category or carried confidence "certain" has failed.
C3_NoPartialRecord ==
    /\ (outcome.op = "analyzeFood" /\ outcome.kind = "returned")
          => IsCompleteRecord(outcome.value)
    /\ (/\ outcome.op = "analyzeFood"
        /\ outcome.kind # "none"
        /\ \/ outcome.reply.food_category = JUndefined
           \/ outcome.reply.confidence = JStr("certain"))
          => outcome.kind = "threw"

\* A call that returned a record after an earlier call was refused for its
\* record's shape.
C3_Witness ==
    /\ outcome.op = "analyzeFood"
    /\ outcome.kind = "returned"
    /\ outcome.value = outcome.reply
    /\ prevFailure.cat = "schema"

\* C4: a reply whose food_description or estimated_serving is the empty
\* string never yields a returned record.
C4_EmptyStringsRejected ==
    (/\ outcome.op = "analyzeFood"
     /\ \/ outcome.reply.food_description = JStr("")
        \/ outcome.reply.estimated_serving = JStr(""))
       => outcome.kind # "returned"

\* C5: generateNutritionTip never throws, whatever the key and the reply.
C5_TipNeverThrows ==
    outcome.op = "generateNutritionTip" => outcome.kind # "threw"

\* The categories C6 lists.
ClaimedCategories ==
    {"missing key", "transport", "http 429", "http 401", "http 5xx",
     "malformed", "schema"}

\* C6: two analyzeFood failures of different listed categories never
\* surface the same message, and every HTTP 5xx failure surfaces the
\* service-error message.
C6_DistinctMessages ==
    /\ (/\ outcome.op = "analyzeFood"
        /\ outcome.kind = "threw"
        /\ outcome.cat \in ClaimedCategories
        /\ prevFailure.cat \in ClaimedCategories
        /\ outcome.cat # prevFailure.cat)
          => outcome.msg # prevFailure.msg
    /\ (/\ outcome.op = "analyzeFood"
        /\ outcome.kind = "threw"
        /\ outcome.cat = "http 5xx")
          => outcome.msg = MsgServiceError

\* C7: a call of analyzeFood with an empty API key throws the
\* configuration error at once, issues no request and leaves the
\* configuration as it was.
C7_FailFastWithoutKey ==
    [][(config.apiKey = "" /\ analyzeFood)
          => /\ outcome'.op = "analyzeFood"
             /\ outcome'.kind = "threw"
             /\ outcome'.msg = MsgNoKey
             /\ callRequests' = 0
             /\ pending' = NoPending
             /\ config' = config]_vars

\* analyzeFood has thrown the configuration error for want of a key, on a
\* service whose model had been changed, right after a call that did issue
\* a request and failed.
C7_Witness ==
    /\ outcome.op = "analyzeFood"
    /\ outcome.kind = "threw"
    /\ outcome.msg = MsgNoKey
    /\ config = [apiKey |-> "", model |-> "openai/gpt-4o"]
    /\ callRequests = 0
    /\ prevFailure.cat = "http 401"

---------------------------------------------------------------------------
(* Claims about the water ledger read directly (SpecLedger).               *)

\* The sum of f over the finite set S.
RECURSIVE SumOver(_, _)
SumOver(S, f) ==
    IF S = {} THEN 0
    ELSE LET x == CHOOSE y \in S : TRUE IN f[x] + SumOver(S \ {x}, f)

\* The signed sum of the stored deltas of one user and date.
LedgerSum(date, userId) ==
    LET mine == {i \in 1..Len(water_intake) :
                    /\ water_intake[i].user_id = userId
                    /\ water_intake[i].logged_date = date}
    IN SumOver(mine, [i \in mine |-> water_intake[i].amount])

---------------------------------------------------------------------------
(* Claims about the food aggregates (SpecDaily, SpecStats).                *)

\* The indexes of the food entries of one user logged on one date.
EntriesOn(date, userId) ==
    {i \in 1..Len(food_entries) :
        food_entries[i].user_id = userId /\ food_entries[i].logged_date = date}

\* The sum of one column over the food entries of one user and date.
MacroSum(col, date, userId) ==
    LET mine == EntriesOn(date, userId)
    IN SumOver(mine, [i \in mine |-> food_entries[i][col]])

Macros == {"calories", "protein", "carbs", "fat"}

\* C12: getDailyTotals(date, user) returns for calories, protein, carbs
\* and fat the sum over that user's entries of that date, and as water the
\* signed water total of that date; every field is a number, 0 when there
\* is no data.
C12_DailyTotals ==
    dbRet.op = "getDailyTotals" =>
        LET totals == dbRet.rows[1]
            date == dbRet.args[1]
            userId == dbRet.args[2]
        IN /\ \A col \in Macros :
                 /\ totals[col] \in Nat
                 /\ totals[col] = MacroSum(col, date, userId)
                 /\ EntriesOn(date, userId) = {} => totals[col] = 0
           /\ totals.water \in Int
           /\ totals.water = LedgerSum(date, userId)

\* Totals of a day with two entries and one glass of water.
C12_Witness ==
    /\ dbRet.op = "getDailyTotals"
    /\ dbRet.args = <<Today, DefaultUserId>>
    /\ dbRet.rows[1] = [calories |-> 350, protein |-> 12, carbs |-> 55,
                          fat |-> 10, water |-> 500]

\* C13: getWeeklyStats(start, end, user) returns one row for each date d
\* with start <= d <= end on which the user has an entry and for no other
\* date, each with that date's sums, in strictly ascending date order.
C13_WeeklyStats ==
    dbRet.op = "getWeeklyStats" =>
        LET rows == dbRet.rows
            start == dbRet.args[1]
            end == dbRet.args[2]
            userId == dbRet.args[3]
        IN /\ \A i \in 1..Len(rows), j \in 1..Len(rows) :
                 i < j => rows[i].date < rows[j].date
           /\ {rows[i].date : i \in 1..Len(rows)}
                 = {d \in Dates : /\ start <= d /\ d <= end
                                   /\ EntriesOn(d, userId) # {}}
           /\ \A i \in 1..Len(rows), col \in Macros :
                 rows[i][col] = MacroSum(col, rows[i].date, userId)

\* A range that ends on a logged day and spans two logged days, one of
\* them with two entries: two rows.
C13_Witness ==
    /\ dbRet.op = "getWeeklyStats"
    /\ dbRet.args = <<1, Today, DefaultUserId>>
    /\ Len(food_entries) = 3
    /\ Len(dbRet.rows) = 2
    /\ dbRet.rows[2].date = Today
    /\ dbRet.rows[2].calories = 350

\* C14: getConsistencyDays(start, end, user) returns the number of
\* distinct dates in the inclusive range on which the user has an entry,
\* and in every state equals the number of rows of getWeeklyStats for the
\* same range and user.
C14_ConsistencyDays ==
    /\ dbRet.op = "getConsistencyDays" =>
          dbRet.num = Cardinality({d \in Dates :
                          /\ dbRet.args[1] <= d /\ d <= dbRet.args[2]
                          /\ EntriesOn(d, dbRet.args[3]) # {}})
    /\ \A a \in Dates, b \in Dates, u \in UserIds :
          getConsistencyDays(a, b, u) = Len(getWeeklyStats(a, b, u))

\* Three entries on two dates count as two days.
C14_Witness ==
    /\ dbRet.op = "getConsistencyDays"
    /\ dbRet.args = <<1, Today, DefaultUserId>>
    /\ Len(food_entries) = 3
    /\ dbRet.num = 2

---------------------------------------------------------------------------
(* Claims about editing and listing food entries (SpecEdit, SpecOrder).    *)

\* The fields an update object supplies with a defined value.
Supplied(updates) == {c \in DOMAIN updates : updates[c].ty # "undefined"}

\* What one call updateFoodEntry(id, updates) may do to the store.
UpdateTouchesOnlySupplied(id, updates) ==
    /\ Len(food_entries') = Len(food_entries)
    /\ \A i \in 1..Len(food_entries) :
          LET old == food_entries[i]
              new == food_entries'[i]
          IN /\ old.id # id => new = old
             /\ new.id = old.id
             /\ new.created_at = old.created_at
             /\ \A c \in FoodColumns :
                   \/ new[c] = old[c]
                   \/ c \in Supplied(updates) /\ new[c] = SqlValue(updates[c])
             /\ (old.id = id /\ dbRet'.ok) =>
                   \A c \in Supplied(updates) \ {"id", "created_at"} :
                       new[c] = SqlValue(updates[c])
    /\ Supplied(updates) = {} => (dbRet'.ok /\ UNCHANGED dbVars)

\* C15: updateFoodEntry(id, fields) changes only the supplied fields whose
\* value is defined, on the row with that id only; id and created_at never
\* change, undefined fields keep their value, other rows are unchanged, and
\* an empty or all-undefined field set leaves the store unchanged without
\* an error.
C15_UpdateOnlySupplied ==
    [][\A id \in 1..MaxRowId, u \in UpdateInputs :
          updateFoodEntryCall(id, u) => UpdateTouchesOnlySupplied(id, u)]_vars

\* One of two entries has had its calories rewritten and kept the rest.
C15_Witness ==
    /\ dbRet.op = "updateFoodEntry"
    /\ dbRet.ok
    /\ Len(food_entries) = 2
    /\ food_entries[1].calories = 300
    /\ food_entries[1].protein = 12
    /\ food_entries[1].food_description = "pizza"
    /\ food_entries[2].calories = 100

\* C16: getFoodEntriesByDate returns the entries newest-created-first: of
\* any two returned entries the one inserted later (the larger
\* AUTOINCREMENT id) comes earlier, also when both were inserted within
\* the same second.
C16_NewestFirst ==
    dbRet.op = "getFoodEntriesByDate" =>
        \A i \in 1..Len(dbRet.rows), j \in 1..Len(dbRet.rows) :
            i < j => dbRet.rows[i].id > dbRet.rows[j].id

\* The same for entries inserted in different seconds only.
NewestFirstAcrossSeconds ==
    dbRet.op = "getFoodEntriesByDate" =>
        \A i \in 1..Len(dbRet.rows), j \in 1..Len(dbRet.rows) :
            (i < j /\ dbRet.rows[i].created_at # dbRet.rows[j].created_at)
                => dbRet.rows[i].id > dbRet.rows[j].id

---------------------------------------------------------------------------
(* Further claims about the OpenRouter service (SpecClient).               *)

IsWrappedObject(toks) ==
    \E i \in 1..Len(toks), j \in 1..Len(toks) :
        /\ i < j
        /\ toks[i] = "LB" /\ toks[j] = "RB"
        /\ \A k \in 1..Len(toks) :
              IF k < i \/ k > j THEN toks[k] \in {"WS", "P", "F", "FJ"}
              ELSE IF i < k /\ k < j THEN toks[k] \in {"WS", "M"}
              ELSE TRUE
        /\ \E k \in (i + 1)..(j - 1) : toks[k] = "M"
        /\ \A k \in (i + 1)..(j - 1), l \in (i + 1)..(j - 1) :
              (toks[k] = "M" /\ toks[l] = "M") => k = l

\* C18: when the content is a valid nutrition JSON object wrapped in
\* markdown fences and/or surrounded by prose without braces, analyzeFood
\* returns the record of the bare JSON.
C18_FenceAndProseTolerance ==
    (/\ outcome.op = "analyzeFood"
     /\ lastReply.kind = "ok"
     /\ lastReply.choices = "content"
     /\ IsWrappedObject(lastReply.toks)
     /\ IsCompleteRecord(lastReply.obj))
       => /\ outcome.kind = "returned"
          /\ outcome.value = lastReply.obj

\* A record came back from prose, a ```json fence, the object and a closing
\* fence.
C18_Witness ==
    /\ outcome.op = "analyzeFood"
    /\ outcome.kind = "returned"
    /\ outcome.value = BaseRecord
    /\ lastReply.toks = <<"P", "WS", "FJ", "WS", "LB", "M", "RB", "WS", "F">>

\* C19: testConnection and getAvailableModels never throw.  testConnection
\* returns false without a request when the key is missing and on every
\* request error, and true only for a reply with status 200.
\* getAvailableModels returns a hardcoded list when the key is missing, on
\* every fetch, HTTP or shape error and when no listed model matches, so
\* its result is never empty.
C19_NeverThrow ==
    /\ outcome.op \in {"testConnection", "getAvailableModels"}
          => outcome.kind # "threw"
    /\ (outcome.op = "testConnection" /\ outcome.kind = "returned")
          => /\ outcome.flag <=> (lastReply.kind = "ok" /\ lastReply.status = 200)
             /\ lastReply = NoReply => callRequests = 0
             /\ lastReply.kind \in {"transport", "http"} => ~outcome.flag
    /\ (outcome.op = "getAvailableModels" /\ outcome.kind = "returned")
          => /\ Len(outcome.list) > 0
             /\ lastReply = NoReply
                   => (callRequests = 0 /\ outcome.list = FallbackModels)
             /\ (\/ lastReply.kind \in {"transport", "http"}
                 \/ lastReply.choices \in {"malformed", "missing"})
                   => outcome.list = FallbackModels
             /\ (/\ lastReply.kind = "ok"
                 /\ lastReply.choices = "content"
                 /\ \A i \in 1..Len(lastReply.toks) :
                       lastReply.toks[i] = "mistralai/mixtral-8x7b")
                   => outcome.list = FewFallbackModels

\* getAvailableModels fell back to its short list for a catalogue without
\* a matching model.
C19_Witness ==
    /\ outcome.op = "getAvailableModels"
    /\ outcome.kind = "returned"
    /\ lastReply.toks = <<"mistralai/mixtral-8x7b">>
    /\ outcome.list = FewFallbackModels

---------------------------------------------------------------------------
(* Claims about the user row (SpecUser).                                   *)

\* C20: for every (calorieGoal, waterGoal) written with updateUserGoals
\* for the existing user, the getUser that follows returns exactly those
\* two values, and name, weight, age, activity level, weight goal and
\* setup_completed as they were before the write; getUser itself returns
\* the stored row and writes nothing.
C20_GoalRoundTrip ==
    [][/\ \A c \in CalorieGoalInputs, w \in WaterGoalInputs :
            updateUserGoals(c, w, DefaultUserId) =>
                LET before == getUser(DefaultUserId)
                    after == getUser(DefaultUserId)'
                IN /\ Len(before) = 1 /\ Len(after) = 1
                   /\ after[1].calorie_goal = c
                   /\ after[1].water_goal = w
                   /\ \A f \in {"id", "name", "weight", "age", "activity_level",
                                  "weight_goal", "setup_completed"} :
                         after[1][f] = before[1][f]
       /\ \A u \in UserIds :
            getUserCall(u) => (dbRet'.rows = getUser(u) /\ UNCHANGED users)]_vars

\* getUser has returned goals written after the profile was set up.
C20_Witness ==
    /\ dbRet.op = "getUser"
    /\ Len(dbRet.rows) = 1
    /\ dbRet.rows[1].calorie_goal = 1800
    /\ dbRet.rows[1].water_goal = 3000
    /\ dbRet.rows[1].name = "Ann"
    /\ dbRet.rows[1].setup_completed = 1

---------------------------------------------------------------------------
(* Claims about goal resolution (SpecProfile).                             *)

\* The profiles of the worked example: 70 kg, 30 years, moderate,
\* lose_steady, no calorie goal given.
ExampleProfiles ==
    [name : {"Ann"}, weight : {70}, age : {30},
     activity_level : {"moderate"}, weight_goal : {"lose_steady"},
     calorie_goal : {NoNumber},
     water_goal : {NoNumber, Given(0), Given(2500)}]

\* Every updateUserProfile step of the existing user with the example
\* profile stores the calorie goal `goal`.
ExampleStores(goal) ==
    \A p \in ExampleProfiles :
        updateUserProfile(p, DefaultUserId) =>
            /\ Len(getUser(DefaultUserId)') = 1
            /\ getUser(DefaultUserId)'[1].calorie_goal = goal

\* C21 as stated: for weight = 70 kg, age = 30, activity = moderate and
\* goal = lose_steady, updateUserProfile called without an explicit
\* calorie goal stores a calorie goal of 2141.
C21_ExampleStores2141 == [][ExampleStores(2141)]_vars

\* C21 amended: for weight = 70 kg, age = 30, activity = moderate and
\* goal = lose_steady, updateUserProfile called without an explicit
\* calorie goal stores round((700 + 1093.75 - 150 + 5) * 1.55 - 500) = 2056.
C21_ExampleStores2056 == [][ExampleStores(2056)]_vars

\* The example profile has been stored with its derived calorie goal.
C21_Witness ==
    /\ dbRet.op = "updateUserProfile" /\ dbRet.ok
    /\ Len(getUser(DefaultUserId)) = 1
    /\ LET row == getUser(DefaultUserId)[1]
       IN /\ row.weight = 70 /\ row.age = 30
          /\ row.activity_level = "moderate"
          /\ row.weight_goal = "lose_steady"
          /\ row.calorie_goal = 2056

\* The calorie goal of the stated formula,
\* round((10*weight + 6.25*175 - 5*age + 5) * m - d), in quarters and
\* thousandths so that the arithmetic is exact.
StatedCalorieGoal(p) ==
    LET m1000 == CASE p.activity_level = "sedentary" -> 1200
                   [] p.activity_level = "light" -> 1375
                   [] p.activity_level = "moderate" -> 1550
                   [] p.activity_level = "active" -> 1725
                   [] p.activity_level = "very_active" -> 1900
                   [] OTHER -> 1200
        d == CASE p.weight_goal = "maintain" -> 0
               [] p.weight_goal = "lose_steady" -> 500
               [] p.weight_goal = "lose_aggressive" -> 750
        n == (40 * p.weight + 4375 - 20 * p.age + 20) * m1000 - 4000 * d
    IN (2 * n + 4000) \div 8000

\* The water goal of the stated formula, round(weight * 35 * a).
StatedWaterGoal(p) ==
    IF p.age > 65 THEN (2 * p.weight * 35 * 11 + 10) \div 20
    ELSE p.weight * 35

\* An updateUserProfile step of the existing user with profile p stores
\* the goals p supplies, and the stated formulas where p omits them.
StoresResolvedGoals(p) ==
    updateUserProfile(p, DefaultUserId) =>
        /\ Len(getUser(DefaultUserId)') = 1
        /\ LET row == getUser(DefaultUserId)'[1]
           IN /\ row.calorie_goal = (IF p.calorie_goal.given
                                      THEN p.calorie_goal.n
                                      ELSE StatedCalorieGoal(p))
              /\ row.water_goal = (IF p.water_goal.given
                                    THEN p.water_goal.n
                                    ELSE StatedWaterGoal(p))

\* C22: a calorie_goal or water_goal supplied by the caller (any number)
\* is stored as given; only when the caller omits it is the goal derived,
\* by the stated calorie and water formulas.
C22_GoalResolution ==
    [][\A p \in GoalProfileInputs : StoresResolvedGoals(p)]_vars

\* For callers that supply no goal of 0, the goals updateUserProfile
\* resolves are the supplied ones, and the stated formulas otherwise.
GoalResolutionNonZero ==
    \A p \in GoalProfileInputs :
        (p.calorie_goal # Given(0) /\ p.water_goal # Given(0)) =>
            /\ OrElse(p.calorie_goal,
                      calculateCalorieGoal(p.weight, p.age, p.activity_level,
                                           p.weight_goal))
                 = (IF p.calorie_goal.given THEN p.calorie_goal.n
                    ELSE StatedCalorieGoal(p))
            /\ OrElse(p.water_goal, calculateWaterGoal(p.weight, p.age))
                 = (IF p.water_goal.given THEN p.water_goal.n
                    ELSE StatedWaterGoal(p))

---------------------------------------------------------------------------
(* Claims about onboarding (SpecSetup).                                    *)

\* getUser() reports setup_completed true.
SetupDone ==
    /\ Len(getUser(DefaultUserId)) = 1
    /\ getUser(DefaultUserId)[1].setup_completed = 1

---------------------------------------------------------------------------
(* Claims about referential integrity (SpecIntegrity).                     *)

\* Every row of rows names the id of an existing users row.
OwnersExist(rows) == \A i \in 1..Len(rows) : UserExists(rows[i].user_id)

ReferentialIntegrity ==
    /\ OwnersExist(food_entries)
    /\ OwnersExist(water_intake)
    /\ OwnersExist(settings)

\* A step that is an insert naming a user that does not exist.
InsertForMissingUser ==
    \E u \in UserIds :
        /\ ~UserExists(u)
        /\ \/ \E e \in FoodInputs : addFoodEntryCall(e, Today, u)
           \/ addWaterIntakeCall(500, Today, u)
           \/ setSetting("ai_model", "m1", u)

\* C24: in every reachable state every food_entries, water_intake and
\* settings row has a user_id that is the id of an existing users row; an
\* insert naming a non-existent user is rejected with an error and leaves
\* the store unchanged.
C24_ReferentialIntegrity ==
    /\ []ReferentialIntegrity
    /\ [][InsertForMissingUser => (~dbRet'.ok /\ UNCHANGED dbVars)]_vars

\* Rows of all three tables are stored and an insert for user 2 has just
\* been rejected.
C24_Witness ==
    /\ food_entries # <<>> /\ water_intake # <<>> /\ settings # <<>>
    /\ dbRet.op = "addFoodEntry"
    /\ ~dbRet.ok

---------------------------------------------------------------------------
(* Claims about the manual entry form (SpecManual).                        *)

\* C25: every stored food entry has non-negative calories, protein, carbs
\* and fat, in every state reachable through the app's entry paths.
C25_NonNegativeMacros ==
    \A i \in 1..Len(food_entries) :
        /\ food_entries[i].calories >= 0
        /\ food_entries[i].protein >= 0
        /\ food_entries[i].carbs >= 0
        /\ food_entries[i].fat >= 0

---------------------------------------------------------------------------
(* Claims about the analysis screen (SpecScreenConfig, SpecAnalysis).      *)

\* The step sends an analyzeFood request from the analysis screen.
IssuesRequest ==
    \E i \in 1..Len(screen.runs) :
        /\ screen.runs[i].pc = "test"
        /\ Len(screen'.runs) = Len(screen.runs)
        /\ screen'.runs[i].pc = "analyze"

C29_ScreenUsesStoredKey ==
    [][\A i \in 1..MaxCaptures :
          pictureDone(i) =>
              /\ screen.config.apiKey = screen.runs[i].checkedKey
              /\ screen'.lastFailure # "missing key"]_vars

\* The moves of step the claim lists, with the returns to the camera that
\* Retry and Retake make.
StepMoves ==
    \/ screen'.step = screen.step
    \/ <<screen.step, screen'.step>> \in
          {<<"camera", "analyzing">>, <<"analyzing", "review">>,
           <<"review", "saving">>, <<"saving", "review">>,
           <<"analyzing", "camera">>, <<"review", "camera">>}

\* C30: every addFoodEntry the screen issues comes from a validated
\* analysis of the same capture cycle; after a failed analysis or a Retake
\* no entry can be saved until a new analysis succeeds; the screen moves
\* camera -> analyzing -> review -> saving -> review and is never in review
\* without a stored result.
C30_SaveOnlyValidated ==
    /\ [](screen.step = "review" => screen.hasResult)
    /\ [][/\ saveStart =>
                (screen.fresh /\ isValidNutritionResponse(screen.analysisResult))
           /\ StepMoves]_vars

---------------------------------------------------------------------------
(* Claims about the water screen's stored total (SpecWater).               *)

\* C27: on the water screen the stored total for today never becomes
\* negative: for every interleaving of add and remove actions, a remove
\* whose guard reads a stale displayed total included, the sum of today's
\* water_intake deltas stays >= 0.
C27_TodayNeverNegative == getWaterIntakeByDate(Today, DefaultUserId) >= 0

---------------------------------------------------------------------------
(* Claims about getDailyTotals among other writes (SpecSnapshot).          *)

\* The plain sum of one column over rows.
RECURSIVE ColumnTotal(_, _)
ColumnTotal(rows, col) ==
    IF rows = <<>> THEN 0 ELSE Head(rows)[col] + ColumnTotal(Tail(rows), col)

\* The totals of one database state: its food rows and its water rows of
\* the date and the user.
TotalsOf(food, water, date, userId) ==
    LET f == SelectSeq(food, LAMBDA r : r.user_id = userId /\ r.logged_date = date)
        w == SelectSeq(water, LAMBDA r : r.user_id = userId /\ r.logged_date = date)
    IN [calories |-> ColumnTotal(f, "calories"), protein |-> ColumnTotal(f, "protein"),
        carbs |-> ColumnTotal(f, "carbs"), fat |-> ColumnTotal(f, "fat"),
        water |-> ColumnTotal(w, "amount")]

\* C28: the tuple getDailyTotals returns equals the totals of some single
\* database state that existed between its invocation and its return, also
\* when addFoodEntry, addWaterIntake or the clear-all action runs between
\* its food query and its water query.  With at most one write in between,
\* those states are the one at the food query and the one at the return.
C28_ConsistentSnapshot ==
    [][getDailyTotalsEnd =>
          dbRet'.rows[1] \in
              {TotalsOf(dailyCall.food0, dailyCall.water0,
                        dailyCall.date, dailyCall.userId),
               TotalsOf(food_entries, water_intake,
                        dailyCall.date, dailyCall.userId)}]_vars

=============================================================================
